---- MODULE Spec2Model ----
(***************************************************************************)
(* Model of html2doc: the CSS selector matcher and cascade of              *)
(* DocxConverter, the section-carrying tree walk, the table builder with   *)
(* its cell merges, LocalStorage with its background sweep and the short   *)
(* download tokens of TokenService.                                         *)
(*                                                                         *)
(* A selector is a sequence of symbols: "." , " " and names ("p", "cls");  *)
(* the string tests of the code (==, startswith, in, split) are computed   *)
(* on that sequence.  An element is a position in `dom`, the chain from    *)
(* the element up to the BeautifulSoup document object.                    *)
(***************************************************************************)
EXTENDS Integers, Sequences, FiniteSets, TLC

VARIABLES
    \* ---- style engine (docx_converter.py 157-271)
    dom,            \* chain of nodes: dom[1] the element, dom[k+1] the parent of dom[k]
    css_styles,     \* the stylesheet: an insertion-ordered dict, <<selector, properties>>
    element_styles, \* the map _get_element_styles returned last
    selector,       \* the selector handed to _selector_matches_element
    matched,        \* what _selector_matches_element returned: "none", "yes", "no"
    resolved        \* the element _get_element_styles was last called for (0: none)

styleVars == <<dom, css_styles, element_styles, selector, matched, resolved>>

VARIABLES
    \* ---- tree walk (docx_converter.py 501-679)
    tree,           \* the HTML tree: parent and kind of every node, node 1 the body
    stack,          \* the active calls of _process_element, the innermost last
    calls           \* the calls made so far, in order: node and current_section passed

walkVars == <<tree, stack, calls>>

VARIABLES
    \* ---- table builder (docx_converter.py 681-779)
    rows,           \* the <tr> rows found, each the list of its td/th: rowspan, colspan
    grid,           \* the docx table: per row the <w:tc> cells left, with gridSpan and vMerge
    row_index,      \* i of line 722, the row being processed (from 0); Len(rows) at the end
    cell_no,        \* the next td/th of row i (from 1)
    col_index,      \* col_index of line 724
    placed,         \* the td/th placed so far: where, and the region its merge made
    raised          \* an exception left _process_table

tableVars == <<rows, grid, row_index, cell_no, col_index, placed, raised>>

VARIABLES
    \* ---- storage and tokens (local_storage.py, token_service.py, app.py 50-62)
    file_metadata,  \* LocalStorage.file_metadata: an insertion-ordered dict, entries by id
    disk,           \* the files of storage_path: path -> bytes written and ctime
    now,            \* time.time(), counted in ticks of 1/TicksPerSecond second
    saved,          \* history: the bytes passed to the save call that returned each id
    removed,        \* history: the ids a delete call returned True for (direct or swept)
    sweep,          \* the cleanup thread inside cleanup_expired
    reader,         \* a request thread inside get
    writer,         \* a request thread inside save
    token,          \* the short token issued last, as its fields (<<>>: none yet)
    grant,          \* history: id, issue time and ttl of that token
    result,         \* what the last completed call returned
    failed          \* the calls that raised

serviceVars == <<file_metadata, disk, now, saved, removed, sweep, reader, writer,
                 token, grant, result, failed>>

VARIABLES
    \* ---- stylesheet text and emitted paragraphs (docx_converter.py 87-155, 273-440, 553-679)
    style_tags,     \* the texts of the <style> tags still to be read
    css_text,       \* the text of the <style> tag read last, as its symbols
    visited,        \* the nodes _process_element was called for so far, in order
    pending,        \* the nodes _process_element is still to be called for, in document order
    doc,            \* the paragraphs added to the document so far, each with the node it came from
    error           \* the exception that left convert ("none": none)

renderVars == <<style_tags, css_text, visited, pending, doc, error>>

vars == <<styleVars, walkVars, tableVars, serviceVars, renderVars>>

\* what the actions of one component leave alone
notStyle == <<walkVars, tableVars, serviceVars, renderVars>>
notWalk  == <<styleVars, tableVars, serviceVars, renderVars>>
notTable == <<styleVars, walkVars, serviceVars, renderVars>>
notService == <<styleVars, walkVars, tableVars, renderVars>>
notRender == <<styleVars, walkVars, tableVars, serviceVars>>

\* ------------------------------------------------------------------ bounds

MaxRules  == 4      \* rules registered in the stylesheet
MaxDepth  == 3      \* elements of a chain below the document object
MaxTokens == 3      \* tokens of a descendant selector
MaxNodes  == 3      \* nodes of a walked tree below the body
MaxRows   == 3      \* rows of a table
MaxCells  == 2      \* td/th of a row
MaxRowSpan == 3     \* rowspan of a cell
MaxColSpan == 2     \* colspan of a cell
MaxTableCells == 4  \* td/th of a table
MaxIds    == 3      \* ids uuid4 draws from
MaxSaves  == 2      \* save calls of a run
MaxTime   == 4      \* ticks a run lasts
TicksPerSecond == 3 \* resolution of the clock below the second
RetentionSeconds == 1 \* retention_seconds the storage is configured with
MaxTtl    == 1      \* largest ordinary expires_in of a request, in seconds
ExpSpace  == 4      \* values of the 4-byte expiry field (2^32 in the code)
HashSpace == 2      \* values of the 5-byte id hash (2^40 in the code)
SigSpace  == 2      \* values of the 3-byte signature (2^24 in the code)
RandSpace == 2      \* values of the 3 random bytes (2^24 in the code)

\* ------------------------------------------------------------- sequences

Last(s) == s[Len(s)]

Front(s) == SubSeq(s, 1, Len(s) - 1)

Contains(s, x) == \E k \in 1..Len(s) : s[k] = x

\* index of the first x of s (0: none)
IndexOf(s, x) ==
    IF Contains(s, x) THEN CHOOSE k \in 1..Len(s) : s[k] = x /\ \A j \in 1..(k - 1) : s[j] # x
    ELSE 0

\* dict.update: the keys of b overwrite those of a
Update(a, b) ==
    [k \in (DOMAIN a) \cup (DOMAIN b) |-> IF k \in DOMAIN b THEN b[k] ELSE a[k]]

EmptyMap == [k \in {} |-> ""]

\* str.split(): the maximal runs without " ", empty runs dropped
RECURSIVE SplitSpaces(_)
SplitSpaces(s) ==
    IF s = <<>> THEN <<>>
    ELSE IF Head(s) = " " THEN SplitSpaces(Tail(s))
    ELSE LET sp == IndexOf(s, " ")
         IN  IF sp = 0 THEN <<s>>
             ELSE <<SubSeq(s, 1, sp - 1)>> \o SplitSpaces(SubSeq(s, sp + 1, Len(s)))

\* ------------------------------------------------------------------- DOM

Document == [name |-> "[document]", class |-> {}, style |-> <<>>]

Node(n, c, st) == [name |-> n, class |-> c, style |-> st]

\* ------------------------------------------- a component that is not in use

Kind(n, c) == [name |-> n, class |-> c]

StyleIdle ==
    /\ dom = <<Document>>
    /\ css_styles = <<>>
    /\ element_styles = EmptyMap
    /\ selector = <<>>
    /\ matched = "none"
    /\ resolved = 0

WalkIdle ==
    /\ tree = [parent |-> <<>>, kind |-> <<Kind("body", {})>>]
    /\ stack = <<>>
    /\ calls = <<>>

TableIdle ==
    /\ rows = <<>>
    /\ grid = <<>>
    /\ row_index = 0
    /\ cell_no = 1
    /\ col_index = 0
    /\ placed = <<>>
    /\ raised = FALSE

\* f"{file_id}.docx" in storage_path
AutoPath(file_id) == <<"docx", file_id>>

\* no thread inside cleanup_expired, get or save
SweepIdle == [pc |-> "idle", now |-> 0, used |-> 0, pos |-> 1, expired_ids |-> <<>>, k |-> 1]

ReaderIdle == [pc |-> "idle", file_path |-> AutoPath(0)]

WriterIdle == [pc |-> "idle", file_id |-> 0, file_path |-> AutoPath(0)]

\* no stylesheet text, no node to render
RenderIdle ==
    /\ style_tags = <<>>
    /\ css_text = <<>>
    /\ visited = <<>>
    /\ pending = <<>>
    /\ doc = <<>>
    /\ error = "none"

\* LocalStorage and TokenService as constructed, the storage directory empty
ServiceIdle ==
    /\ file_metadata = <<>>
    /\ disk = EmptyMap
    /\ now = 0
    /\ saved = EmptyMap
    /\ removed = {}
    /\ sweep = SweepIdle
    /\ reader = ReaderIdle
    /\ writer = WriterIdle
    /\ token = <<>>
    /\ grant = [file_id |-> 0, issued_at |-> 0, ttl |-> 0]
    /\ result = [op |-> "none", val |-> 0]
    /\ failed = {}

\* ------------------------------------------------- _selector_matches_element

\* one selector without the descendant branch: lines 169-180
SimpleMatch(sel, el) ==
    IF sel = <<el.name>> THEN TRUE
    ELSE IF sel # <<>> /\ Head(sel) = "." THEN \E c \in el.class : Tail(sel) = <<c>>
    ELSE IF Contains(sel, ".")
         THEN LET d == IndexOf(sel, ".")
              IN  /\ <<el.name>> = SubSeq(sel, 1, d - 1)
                  /\ \E c \in el.class : SubSeq(sel, d + 1, Len(sel)) = <<c>>
    ELSE FALSE

\* the branch a selector takes: the first test of lines 169, 173, 178, 183 that holds
BranchOf(sel, el) ==
    IF sel = <<el.name>> THEN "element"
    ELSE IF sel # <<>> /\ Head(sel) = "." THEN "class"
    ELSE IF Contains(sel, ".") THEN "element+class"
    ELSE IF Contains(sel, " ") THEN "descendant"
    ELSE "none"

\* the while loop of lines 194-203 from ancestor k on: parts are the tokens still
\* to be matched, the last one first (a token holds no " ", so the recursive call
\* of line 196 ends in one of the first three branches or in line 205)
RECURSIVE AncestorsMatch(_, _, _)
AncestorsMatch(parts, chain, k) ==
    IF parts = <<>> THEN TRUE
    ELSE IF k > Len(chain) THEN FALSE
    ELSE IF SimpleMatch(Last(parts), chain[k])
         THEN AncestorsMatch(Front(parts), chain, k + 1)
         ELSE AncestorsMatch(parts, chain, k + 1)

\* _selector_matches_element(selector, chain[k])
SelectorMatchesElement(sel, chain, k) ==
    LET el == chain[k]
        b  == BranchOf(sel, el)
    IN  IF b \in {"element", "class", "element+class"} THEN SimpleMatch(sel, el)
        ELSE IF b = "descendant"
             THEN LET parts == SplitSpaces(sel)
                  IN  /\ parts # <<>>
                      /\ SimpleMatch(Last(parts), el)
                      /\ AncestorsMatch(Front(parts), chain, k + 1)
        ELSE FALSE

\* ------------------------------------------------------- _get_element_styles

\* lines 234-243: the rank of a matching selector
Specificity(sel, el) ==
    IF sel = <<el.name>> THEN 1
    ELSE IF sel # <<>> /\ Head(sel) = "." THEN 10
    ELSE IF Contains(sel, ".") THEN 11
    ELSE IF Contains(sel, " ") THEN 100 + Len(SplitSpaces(sel))
    ELSE 0

\* lines 231-245: the matching rules in the iteration order of the dict
RECURSIVE SelectorMatches(_, _, _)
SelectorMatches(styles, chain, k) ==
    IF styles = <<>> THEN <<>>
    ELSE LET r == Head(styles)
             rest == SelectorMatches(Tail(styles), chain, k)
         IN  IF SelectorMatchesElement(r[1], chain, k)
             THEN <<<<r[1], r[2], Specificity(r[1], chain[k])>>>> \o rest
             ELSE rest

\* insertion of m into a list sorted by rank, after the entries of the same rank
RECURSIVE InsertByRank(_, _)
InsertByRank(sorted, m) ==
    IF sorted = <<>> THEN <<m>>
    ELSE IF Head(sorted)[3] <= m[3] THEN <<Head(sorted)>> \o InsertByRank(Tail(sorted), m)
    ELSE <<m>> \o sorted

\* insertion of m before the entries of the same rank
RECURSIVE InsertBeforeRank(_, _)
InsertBeforeRank(sorted, m) ==
    IF sorted = <<>> THEN <<m>>
    ELSE IF Head(sorted)[3] < m[3] THEN <<Head(sorted)>> \o InsertBeforeRank(Tail(sorted), m)
    ELSE <<m>> \o sorted

\* line 248 with a sort that reverses the entries of the same rank
RECURSIVE SortByRankReversing(_)
SortByRankReversing(ms) ==
    IF ms = <<>> THEN <<>>
    ELSE InsertBeforeRank(SortByRankReversing(Front(ms)), Last(ms))

\* line 248: list.sort(key=rank) is stable
RECURSIVE SortByRank(_)
SortByRank(ms) ==
    IF ms = <<>> THEN <<>>
    ELSE InsertByRank(SortByRank(Front(ms)), Last(ms))

\* lines 251-252: element_styles.update(properties), in order
RECURSIVE MergeAll(_, _)
MergeAll(acc, ms) ==
    IF ms = <<>> THEN acc
    ELSE MergeAll(Update(acc, Head(ms)[2]), Tail(ms))

\* lines 256-262: the items of the inline style (split at ";"), those with a colon
\* assigned in order
RECURSIVE ApplyInline(_, _)
ApplyInline(acc, items) ==
    IF items = <<>> THEN acc
    ELSE IF ~Head(items).colon THEN ApplyInline(acc, Tail(items))
    ELSE ApplyInline(Update(acc, [k \in {Head(items).name} |-> Head(items).value]), Tail(items))

\* the inline style applied first, the rules merged over it
GetElementStylesInlineFirst(styles, chain, k) ==
    MergeAll(ApplyInline(EmptyMap, chain[k].style),
             SortByRank(SelectorMatches(styles, chain, k)))

\* _get_element_styles(chain[k], styles)
GetElementStyles(styles, chain, k) ==
    ApplyInline(MergeAll(EmptyMap, SortByRank(SelectorMatches(styles, chain, k))),
                chain[k].style)

\* line 150 as styles.setdefault(single_selector, {}).update(style_properties)
RegisterMerging(styles, sel, props) ==
    IF \E k \in 1..Len(styles) : styles[k][1] = sel
    THEN [k \in 1..Len(styles) |->
             IF styles[k][1] = sel THEN <<sel, Update(styles[k][2], props)>> ELSE styles[k]]
    ELSE Append(styles, <<sel, props>>)

\* line 150: styles[single_selector] = style_properties.  A key already present
\* keeps its place in the iteration order and gets the new value.
Register(styles, sel, props) ==
    IF \E k \in 1..Len(styles) : styles[k][1] = sel
    THEN [k \in 1..Len(styles) |-> IF styles[k][1] = sel THEN <<sel, props>> ELSE styles[k]]
    ELSE Append(styles, <<sel, props>>)

\* ------------------------------------------------- the inputs of the cascade

SelP        == <<"p">>
SelCls      == <<".", "cls">>
SelPCls     == <<"p", ".", "cls">>
SelOuterCls == <<".", "outer", " ", ".", "cls">>
SelDivP     == <<"div", " ", "p">>
SelOuter    == <<".", "outer">>

CascadeSelectors == {SelP, SelCls, SelPCls, SelOuterCls, SelDivP, SelOuter}

\* every rule declares `color` with a value of its own
ValueOf(sel) ==
    CASE sel = SelP        -> "of p"
      [] sel = SelCls      -> "of .cls"
      [] sel = SelPCls     -> "of p.cls"
      [] sel = SelOuterCls -> "of .outer .cls"
      [] sel = SelDivP     -> "of div p"
      [] OTHER             -> "of .outer"

RuleProps(sel) == [k \in {"color"} |-> ValueOf(sel)]

Item(n, v)   == [name |-> n, value |-> v, colon |-> TRUE]
BadItem(txt) == [name |-> txt, value |-> "", colon |-> FALSE]

\* inline style attributes, split at ";": none, one declaration, a declaration
\* followed by an item without colon, the same property declared twice
InlineStyles ==
    { <<>>,
      <<Item("color", "inline")>>,
      <<Item("text-align", "center"), BadItem("color red")>>,
      <<Item("color", "inline"), Item("color", "inline2")>> }

CascadeDoms ==
    { <<Node("p", c, st), Node("div", pc, <<>>), Document>> :
        c \in {{}, {"cls"}}, pc \in {{}, {"outer"}}, st \in InlineStyles }

\* ------------------------------------------------ the inputs of the matcher

MatchTokens == {<<"p">>, <<"div">>, <<".", "cls">>, <<".", "outer">>, <<"p", ".", "cls">>}

MatchNodes ==
    {Node("p", {}, <<>>), Node("p", {"cls"}, <<>>), Node("div", {}, <<>>),
     Node("div", {"outer"}, <<>>)}

RECURSIVE Join(_)
Join(tokens) ==
    IF Len(tokens) = 1 THEN tokens[1]
    ELSE tokens[1] \o <<" ">> \o Join(Tail(tokens))

DescendantSelectors ==
    UNION { {Join(ts) : ts \in [1..n -> MatchTokens]} : n \in 2..MaxTokens }

MatchChains ==
    UNION { {c \o <<Document>> : c \in [1..n -> MatchNodes]} : n \in 1..MaxDepth }


\* ------------------------------------------------------- _process_element

None == "None"

\* the six section markers, in the order of the elif chain of lines 528-545
SectionMarkers == <<"cover", "toc", "abstract", "keywords", "references", "acknowledgments">>

\* lines 528-545: the first marker of the chain that is in class_names, else the
\* value passed in
RECURSIVE FirstMarker(_, _, _)
FirstMarker(class_names, k, current) ==
    IF k > Len(SectionMarkers) THEN current
    ELSE IF SectionMarkers[k] \in class_names THEN SectionMarkers[k]
    ELSE FirstMarker(class_names, k + 1, current)

\* the value of the local current_section once line 546 is passed
LocalSection(node, current) ==
    IF node.name = "div" THEN FirstMarker(node.class, 1, current) ELSE current

\* a text node has no name (line 512)
TextName == ""

Children(t, n) ==
    LET cs == {c \in DOMAIN t.parent : t.parent[c] = n}
        RECURSIVE Ordered(_)
        Ordered(S) == IF S = {} THEN <<>>
                      ELSE LET c == CHOOSE c \in S : \A d \in S : c <= d
                           IN  <<c>> \o Ordered(S \ {c})
    IN  Ordered(cs)

RECURSIVE ElementsOnly(_, _)
ElementsOnly(t, cs) ==
    IF cs = <<>> THEN <<>>
    ELSE IF t.kind[Head(cs)].name = TextName THEN ElementsOnly(t, Tail(cs))
    ELSE <<Head(cs)>> \o ElementsOnly(t, Tail(cs))

\* the children a call passes to _process_element: none for a text node (512), a
\* table (520-523) and the rendered blocks (676); all of them for a div (548); the
\* element children for any other node (677-679)
CalledChildren(t, n) ==
    LET name == t.kind[n].name
    IN  IF name = TextName \/ name = "table" THEN <<>>
        ELSE IF name = "div" THEN Children(t, n)
        ELSE IF name \in {"p", "h1", "h2", "h3", "ul", "ol"} THEN <<>>
        ELSE ElementsOnly(t, Children(t, n))

\* the caller's current_section once the call for a child has returned: the
\* callee's assignment (529-544) is to its own parameter
SectionAfterReturnLeaking(caller, callee) == callee

SectionAfterReturn(caller, callee) == caller

Frame(n, sec, nxt) == [node |-> n, section |-> sec, next |-> nxt]

WalkKinds ==
    { Kind("div", {}), Kind("div", {"abstract"}), Kind("div", {"references"}),
      Kind("section", {"references"}), Kind("p", {}), Kind(TextName, {}) }

WalkTrees ==
    { [parent |-> par, kind |-> [n \in 1..(MaxNodes + 1) |-> IF n = 1 THEN Kind("body", {}) ELSE k[n]]] :
        par \in { f \in [2..(MaxNodes + 1) -> 1..MaxNodes] : \A n \in 2..(MaxNodes + 1) : f[n] < n },
        k \in [2..(MaxNodes + 1) -> WalkKinds] }

\* line 497: _process_element(body, doc, css_styles), current_section = None
InitWalk ==
    /\ tree \in WalkTrees
    /\ \A n \in DOMAIN tree.parent : tree.kind[tree.parent[n]].name # TextName
    /\ stack = <<Frame(1, LocalSection(tree.kind[1], None), 1)>>
    /\ calls = <<[node |-> 1, section |-> None]>>
    /\ StyleIdle
    /\ TableIdle
    /\ ServiceIdle
    /\ RenderIdle

\* lines 549, 679: the innermost call calls _process_element for its next child
Descend ==
    /\ stack # <<>>
    /\ LET f  == Last(stack)
           cs == CalledChildren(tree, f.node)
       IN  /\ f.next <= Len(cs)
           /\ LET c == cs[f.next]
              IN  /\ calls' = Append(calls, [node |-> c, section |-> f.section])
                  /\ stack' = Append([stack EXCEPT ![Len(stack)].next = f.next + 1],
                                     Frame(c, LocalSection(tree.kind[c], f.section), 1))
    /\ UNCHANGED tree
    /\ UNCHANGED notWalk

\* the innermost call has no child left and returns
Return ==
    /\ stack # <<>>
    /\ LET f == Last(stack)
       IN  /\ f.next > Len(CalledChildren(tree, f.node))
           /\ stack' = IF Len(stack) = 1 THEN <<>>
                       ELSE [Front(stack) EXCEPT ![Len(stack) - 1].section =
                                SectionAfterReturn(stack[Len(stack) - 1].section, f.section)]
    /\ UNCHANGED <<tree, calls>>
    /\ UNCHANGED notWalk


\* ---------------------------------------------- the docx table (python-docx)
\* A row of `grid` is the list of its <w:tc>: id the grid position the tc was
\* created at, span its gridSpan, vm its vMerge ("none", "restart", "continue").
\* Rows and columns count from 0, as in the code.

Err == [err |-> TRUE]

Ok(v) == [err |-> FALSE, val |-> v]

Min(a, b) == IF a < b THEN a ELSE b

Max(a, b) == IF a > b THEN a ELSE b

Tc(r, c) == [id |-> <<r, c>>, span |-> 1, vm |-> "none"]

\* doc.add_table(rows=R, cols=C), line 714
NewTable(R, C) == [r \in 1..R |-> [c \in 1..C |-> Tc(r - 1, c - 1)]]

\* CT_Tc._grid_col: the grid column the k-th tc of a row starts at
RECURSIVE GridCol(_, _)
GridCol(row, k) == IF k = 1 THEN 0 ELSE GridCol(row, k - 1) + row[k - 1].span

\* CT_Row.tc_at_grid_col: the tc that starts at column c (0: ValueError)
TcAtGridCol(row, c) ==
    IF \E k \in 1..Len(row) : GridCol(row, k) = c
    THEN CHOOSE k \in 1..Len(row) : GridCol(row, k) = c
    ELSE 0

\* the tc of a row that covers column c
TcCovering(row, c) ==
    CHOOSE k \in 1..Len(row) : GridCol(row, k) <= c /\ c < GridCol(row, k) + row[k].span

\* Table.cell(r, c) through Table._cells: a "continue" tc stands for the cell one
\* row up in the same column. The result is <<row, index in the row>>.
RECURSIVE TableCell(_, _, _)
TableCell(t, r, c) ==
    LET k == TcCovering(t[r + 1], c)
    IN  IF t[r + 1][k].vm = "continue" /\ r > 0 THEN TableCell(t, r - 1, c)
        ELSE <<r, k>>

\* CT_Tc.top (-1: tc_at_grid_col raised)
RECURSIVE TcTop(_, _, _)
TcTop(t, r, k) ==
    IF t[r + 1][k].vm \in {"none", "restart"} \/ r = 0 THEN r
    ELSE LET ka == TcAtGridCol(t[r], GridCol(t[r + 1], k))
         IN  IF ka = 0 THEN -1 ELSE TcTop(t, r - 1, ka)

\* CT_Tc.bottom (-1: tc_at_grid_col raised)
RECURSIVE TcBottom(_, _, _)
TcBottom(t, r, k) ==
    IF t[r + 1][k].vm = "none" \/ r + 1 = Len(t) THEN r + 1
    ELSE LET kb == TcAtGridCol(t[r + 2], GridCol(t[r + 1], k))
         IN  IF kb = 0 THEN -1
             ELSE IF t[r + 2][kb].vm = "continue" THEN TcBottom(t, r + 1, kb)
             ELSE r + 1

\* CT_Tc._span_to_width: the k-th tc of the row swallows its right neighbours up
\* to the width, then takes the vMerge value (Err: InvalidSpanError)
RECURSIVE SpanToWidth(_, _, _, _)
SpanToWidth(row, k, width, vm) ==
    IF row[k].span >= width THEN Ok([row EXCEPT ![k].vm = vm])
    ELSE IF k = Len(row) THEN Err
    ELSE IF row[k].span + row[k + 1].span > width THEN Err
    ELSE SpanToWidth([j \in 1..(Len(row) - 1) |->
                         IF j < k THEN row[j]
                         ELSE IF j = k THEN [row[k] EXCEPT !.span = row[k].span + row[k + 1].span]
                         ELSE row[j + 1]],
                     k, width, vm)

\* CT_Tc._grow_to from row r down: the tc at grid column `left` of each of
\* `height` rows is spanned to the width; the first is the top cell
RECURSIVE GrowTo(_, _, _, _, _, _)
GrowTo(t, r, left, width, height, first) ==
    IF r >= Len(t) THEN Err
    ELSE LET k == TcAtGridCol(t[r + 1], left)
         IN  IF k = 0 THEN Err
             ELSE LET vm == IF ~first THEN "continue"
                            ELSE IF height = 1 THEN "none" ELSE "restart"
                      sp == SpanToWidth(t[r + 1], k, width, vm)
                  IN  IF sp.err THEN Err
                      ELSE IF height > 1
                           THEN GrowTo([t EXCEPT ![r + 1] = sp.val], r + 1, left, width,
                                       height - 1, FALSE)
                      ELSE Ok([t EXCEPT ![r + 1] = sp.val])

\* CT_Tc._span_dimensions: the rectangle two cells span, <<top, left, height,
\* width>> (Err: InvalidSpanError, "requested span not rectangular")
SpanDimensions(t, a, b) ==
    LET at == TcTop(t, a[1], a[2])
        ab == TcBottom(t, a[1], a[2])
        al == GridCol(t[a[1] + 1], a[2])
        ar == al + t[a[1] + 1][a[2]].span
        bt == TcTop(t, b[1], b[2])
        bb == TcBottom(t, b[1], b[2])
        bl == GridCol(t[b[1] + 1], b[2])
        br == bl + t[b[1] + 1][b[2]].span
        invertedL == (at = bt /\ ab # bb) \/ (al = bl /\ ar # br)
        teeV == IF at < bt THEN ab > bb ELSE (bt < at /\ bb > ab)
        teeH == IF al < bl THEN ar > br ELSE (bl < al /\ br > ar)
    IN  IF at < 0 \/ ab < 0 \/ bt < 0 \/ bb < 0 THEN Err
        ELSE IF invertedL \/ teeV \/ teeH THEN Err
        ELSE Ok(<<Min(at, bt), Min(al, bl), Max(ab, bb) - Min(at, bt), Max(ar, br) - Min(al, bl)>>)

\* _Cell.merge(other), line 750: the table after the merge and the rectangle merged
CellMerge(t, a, b) ==
    LET d == SpanDimensions(t, a, b)
    IN  IF d.err THEN Err
        ELSE LET g == GrowTo(t, d.val[1], d.val[2], d.val[4], d.val[3], TRUE)
             IN  IF g.err THEN Err ELSE Ok([tbl |-> g.val, rect |-> d.val])

\* ----------------------------------------------------------- _process_table

RECURSIVE SumColspan(_)
SumColspan(cells) ==
    IF cells = <<>> THEN 0 ELSE Head(cells).colspan + SumColspan(Tail(cells))

\* lines 701-705
RECURSIVE MaxCols(_)
MaxCols(rs) ==
    IF rs = <<>> THEN 0 ELSE Max(SumColspan(Head(rs)), MaxCols(Tail(rs)))

\* lines 732-733: the first column from c on whose cell is a tc of row r itself
RECURSIVE SkipMerged(_, _, _, _)
SkipMerged(t, r, c, max_cols) ==
    IF c < max_cols /\ TableCell(t, r, c)[1] # r THEN SkipMerged(t, r, c + 1, max_cols)
    ELSE c

SourceCell(rs, cs) == [rowspan |-> rs, colspan |-> cs]

SourceCells == {SourceCell(rs, cs) : rs \in 1..MaxRowSpan, cs \in 1..MaxColSpan}

SourceRows == UNION { [1..n -> SourceCells] : n \in 1..MaxCells }

RECURSIVE CountCells(_)
CountCells(rs) == IF rs = <<>> THEN 0 ELSE Len(Head(rs)) + CountCells(Tail(rs))

SourceTables ==
    { t \in UNION { [1..n -> SourceRows] : n \in 1..MaxRows } : CountCells(t) <= MaxTableCells }

\* lines 695-724: the rows are found, the table is created, the first row begins
InitTable ==
    /\ rows \in SourceTables
    /\ grid = NewTable(Len(rows), MaxCols(rows))
    /\ row_index = 0
    /\ cell_no = 1
    /\ col_index = 0
    /\ placed = <<>>
    /\ raised = FALSE
    /\ StyleIdle
    /\ WalkIdle
    /\ ServiceIdle
    /\ RenderIdle

\* lines 726-777 for one td/th: skip what is merged, stop the row at the right
\* edge, merge, move on
ProcessCell ==
    /\ ~raised
    /\ row_index < Len(rows)
    /\ cell_no <= Len(rows[row_index + 1])
    /\ LET cell     == rows[row_index + 1][cell_no]
           max_cols == MaxCols(rows)
           col      == SkipMerged(grid, row_index, col_index, max_cols)
           end_row  == Min(row_index + cell.rowspan - 1, Len(rows) - 1)
           end_col  == Min(col + cell.colspan - 1, max_cols - 1)
       IN  IF col >= max_cols
           THEN \* line 736: break
                /\ cell_no' = Len(rows[row_index + 1]) + 1
                /\ col_index' = col
                /\ UNCHANGED <<grid, placed, raised>>
           ELSE IF (cell.rowspan > 1 \/ cell.colspan > 1) /\ (end_row > row_index \/ end_col > col)
           THEN LET m == CellMerge(grid, TableCell(grid, row_index, col), TableCell(grid, end_row, end_col))
                IN  IF m.err
                    THEN /\ raised' = TRUE
                         /\ UNCHANGED <<grid, placed, cell_no, col_index>>
                    ELSE /\ grid' = m.val.tbl
                         /\ placed' = Append(placed, [row |-> row_index, col |-> col, cell |-> cell,
                                                      region |-> m.val.rect])
                         /\ cell_no' = cell_no + 1
                         /\ col_index' = col + cell.colspan
                         /\ UNCHANGED raised
           ELSE /\ placed' = Append(placed, [row |-> row_index, col |-> col, cell |-> cell,
                                             region |-> <<row_index, col, 1, 1>>])
                /\ cell_no' = cell_no + 1
                /\ col_index' = col + cell.colspan
                /\ UNCHANGED <<grid, raised>>
    /\ UNCHANGED <<rows, row_index>>
    /\ UNCHANGED notTable

\* lines 722-724: the cells of the row are done, the next row begins
NextRow ==
    /\ ~raised
    /\ row_index < Len(rows)
    /\ cell_no > Len(rows[row_index + 1])
    /\ row_index' = row_index + 1
    /\ cell_no' = 1
    /\ col_index' = 0
    /\ UNCHANGED <<rows, grid, placed, raised>>
    /\ UNCHANGED notTable

NextTable ==
    \/ ProcessCell
    \/ NextRow

SpecTable == InitTable /\ [][NextTable]_vars

\* ---------------------------------------------------------------- LocalStorage

\* uuid4 draws ids from here
Ids == 1..MaxIds

\* file contents
Bytes == {"A", "B"}

\* save called without a file_name
NoName == 0

\* the file_name arguments of save: none, or one name the caller chose
FileNames == {NoName, 1}

\* os.path.join(storage_path, file_name), file_name defaulting to f"{file_id}.docx"
FilePath(file_id, file_name) ==
    IF file_name = NoName THEN AutoPath(file_id) ELSE <<"name", file_name>>

\* int(time.time())
IntTime(t) == t \div TicksPerSecond

\* a number of seconds on the clock
Seconds(n) == n * TicksPerSecond

\* list(file_metadata.keys())
KeyList(meta) == [k \in 1..Len(meta) |-> meta[k].id]

Keys(meta) == {meta[k].id : k \in 1..Len(meta)}

\* file_metadata[file_id]
Entry(meta, file_id) == meta[CHOOSE k \in 1..Len(meta) : meta[k].id = file_id]

\* file_metadata[file_id] = entry: a known key keeps its place, a new one goes last
DictSet(meta, entry) ==
    IF entry.id \in Keys(meta)
    THEN [k \in 1..Len(meta) |-> IF meta[k].id = entry.id THEN entry ELSE meta[k]]
    ELSE Append(meta, entry)

\* file_metadata.pop(file_id, None)
DictPop(meta, file_id) == SelectSeq(meta, LAMBDA e : e.id # file_id)

\* open(path, 'wb').write(content), and an entry added to a history
Write(dsk, path, content) ==
    [q \in (DOMAIN dsk) \cup {path} |-> IF q = path THEN content ELSE dsk[q]]

\* os.remove(path) behind os.path.exists(path)
Remove(dsk, path) == [q \in (DOMAIN dsk) \ {path} |-> dsk[q]]

MetaEntry(file_id, file_path, created) ==
    [id |-> file_id, file_path |-> file_path,
     expires_at |-> created + Seconds(RetentionSeconds)]

\* save, lines 47-57, for the id uuid4 returned
LocalSave(meta, dsk, file_id, file_content, file_name, t) ==
    LET file_path == FilePath(file_id, file_name)
    IN  [meta |-> DictSet(meta, MetaEntry(file_id, file_path, t)),
         disk |-> Write(dsk, file_path, [bytes |-> file_content, ctime |-> t])]

\* get
LocalGet(meta, dsk, file_id) ==
    IF file_id \notin Keys(meta) THEN None
    ELSE LET file_path == Entry(meta, file_id).file_path
         IN  IF file_path \notin DOMAIN dsk THEN None
             ELSE dsk[file_path].bytes

\* delete
LocalDelete(meta, dsk, file_id) ==
    IF file_id \notin Keys(meta) THEN [ok |-> FALSE, meta |-> meta, disk |-> dsk]
    ELSE [ok |-> TRUE,
          meta |-> DictPop(meta, file_id),
          disk |-> Remove(dsk, Entry(meta, file_id).file_path)]

\* the comprehension of cleanup_expired, lines 112-115
ExpiredIds(meta, t) == KeyList(SelectSeq(meta, LAMBDA e : e.expires_at < t))

\* the loop of cleanup_expired, lines 117-120; deleted holds the ids counted
RECURSIVE DeleteEach(_, _, _)
DeleteEach(meta, dsk, ids) ==
    IF ids = <<>> THEN [meta |-> meta, disk |-> dsk, deleted |-> <<>>]
    ELSE LET d == LocalDelete(meta, dsk, Head(ids))
             rest == DeleteEach(d.meta, d.disk, Tail(ids))
         IN  [meta |-> rest.meta, disk |-> rest.disk,
              deleted |-> IF d.ok THEN <<Head(ids)>> \o rest.deleted ELSE rest.deleted]

\* cleanup_expired at time t
CleanupExpired(meta, dsk, t) == DeleteEach(meta, dsk, ExpiredIds(meta, t))

\* the ids the directory scan of get_all_file_ids accepts: files named
\* <id>.docx (the names callers choose are short, len(potential_id) <= 8)
Scannable(dsk) == {p[2] : p \in {q \in DOMAIN dsk : q[1] = "docx"}}

\* the orders a set can be listed in (os.listdir promises none)
Orders(S) ==
    {s \in [1..Cardinality(S) -> S] : \A a, b \in 1..Cardinality(S) : a # b => s[a] # s[b]}

\* the lists get_all_file_ids can return
Listings(meta, dsk) ==
    IF meta # <<>> THEN {KeyList(meta)} ELSE Orders(Scannable(dsk))

\* lines 150-155 for the files scanned
RECURSIVE Adopt(_, _, _)
Adopt(meta, dsk, file_ids) ==
    IF file_ids = <<>> THEN meta
    ELSE LET file_path == AutoPath(Head(file_ids))
         IN  Adopt(DictSet(meta, MetaEntry(Head(file_ids), file_path, dsk[file_path].ctime)),
                   dsk, Tail(file_ids))

\* the index get_all_file_ids leaves when it returns file_ids
GetAllFileIds(meta, dsk, file_ids) ==
    IF meta # <<>> THEN meta ELSE Adopt(meta, dsk, file_ids)

\* ---------------------------------------------------------------- TokenService

\* an id where none was found (None)
NoFile == 0

\* expires_in None, or a value int() rejects
NoTtl == -1

\* SECRET_KEY
SecretKey == 1

\* the expires_in values of requests: none, ordinary ones, and one as large
\* as the expiry field
ExpiresIn == {NoTtl} \cup (0..MaxTtl) \cup {ExpSpace}

\* hashlib.md5(file_id.encode()).digest()[:5]: the digest cut to the field
FileIdHash(file_id) == file_id % HashSpace

\* hashlib.sha256((token + secret_key).encode()).digest()[:3]: a digest of
\* the three fields and the key, cut to the field
Signature(main) == (main[1] + main[2] + main[3] + SecretKey) % SigSpace

\* generate_short_token at time t with the random bytes rand; a token is
\* the sequence of its fields: random, expiry, id hash, signature
GenerateShortToken(file_id, expires_in, t, rand) ==
    LET expires_in_int == IF expires_in = NoTtl THEN NoTtl ELSE expires_in
    IN  IF expires_in_int = NoTtl THEN Err          \* int + None: TypeError
        ELSE LET exp_time == IntTime(t) + expires_in_int
                 main == <<rand, exp_time, FileIdHash(file_id)>>
             IN  IF exp_time >= ExpSpace THEN Err   \* to_bytes(4): OverflowError
                 ELSE Ok(Append(main, Signature(main)))

\* lines 104-137: the token passes the signature and expiry tests
TokenAccepted(tok, t) ==
    LET main_token == SubSeq(tok, 1, 3)
        signature == tok[4]
    IN  /\ signature = Signature(main_token)
        /\ ~(main_token[2] < IntTime(t))

\* lines 147-154: the first listed id with the hash of the token
RECURSIVE FirstCandidate(_, _)
FirstCandidate(all_file_ids, file_id_hash) ==
    IF all_file_ids = <<>> THEN NoFile
    ELSE IF FileIdHash(Head(all_file_ids)) = file_id_hash THEN Head(all_file_ids)
    ELSE FirstCandidate(Tail(all_file_ids), file_id_hash)

\* verify_short_token at time t when get_all_file_ids returns all_file_ids
VerifyShortToken(tok, t, all_file_ids) ==
    IF ~TokenAccepted(tok, t) THEN NoFile
    ELSE FirstCandidate(all_file_ids, tok[3])

\* the tokens of the format
TokenSpace ==
    {<<r, e, h, s>> : r \in 0..(RandSpace - 1), e \in 0..(ExpSpace - 1),
                      h \in 0..(HashSpace - 1), s \in 0..(SigSpace - 1)}

\* ------------------------------------------------ the calls, each as a whole

InitService ==
    /\ ServiceIdle
    /\ RenderIdle
    /\ StyleIdle
    /\ WalkIdle
    /\ TableIdle

Save(file_content, file_name) ==
    /\ Cardinality(DOMAIN saved) < MaxSaves
    /\ \E file_id \in Ids \ ((DOMAIN saved) \cup Keys(file_metadata)) :
         LET s == LocalSave(file_metadata, disk, file_id, file_content, file_name, now)
         IN  /\ file_metadata' = s.meta
             /\ disk' = s.disk
             /\ saved' = Write(saved, file_id, file_content)
             /\ result' = [op |-> "save", val |-> file_id]
    /\ UNCHANGED <<now, removed, sweep, reader, writer, token, grant, failed>>
    /\ UNCHANGED notService

Get(file_id) ==
    /\ result' = [op |-> "get", val |-> LocalGet(file_metadata, disk, file_id)]
    /\ UNCHANGED <<file_metadata, disk, now, saved, removed, sweep, reader, writer,
                   token, grant, failed>>
    /\ UNCHANGED notService

Delete(file_id) ==
    /\ LET d == LocalDelete(file_metadata, disk, file_id)
       IN  /\ file_metadata' = d.meta
           /\ disk' = d.disk
           /\ removed' = IF d.ok THEN removed \cup {file_id} ELSE removed
           /\ result' = [op |-> "delete", val |-> d.ok]
    /\ UNCHANGED <<now, saved, sweep, reader, writer, token, grant, failed>>
    /\ UNCHANGED notService

Cleanup ==
    /\ LET c == CleanupExpired(file_metadata, disk, now)
       IN  /\ file_metadata' = c.meta
           /\ disk' = c.disk
           /\ removed' = removed \cup {c.deleted[k] : k \in 1..Len(c.deleted)}
           /\ result' = [op |-> "cleanup_expired", val |-> Len(c.deleted)]
    /\ UNCHANGED <<now, saved, sweep, reader, writer, token, grant, failed>>
    /\ UNCHANGED notService

Tick ==
    /\ now < MaxTime
    /\ now' = now + 1
    /\ UNCHANGED <<file_metadata, disk, saved, removed, sweep, reader, writer,
                   token, grant, result, failed>>
    /\ UNCHANGED notService

NextStorage ==
    \/ \E file_content \in Bytes, file_name \in FileNames : Save(file_content, file_name)
    \/ \E file_id \in Ids : Get(file_id)
    \/ \E file_id \in Ids : Delete(file_id)
    \/ Cleanup
    \/ Tick

SpecStorage == InitService /\ [][NextStorage]_vars

\* ------------------------------------------- tokens over the stored files

\* storage.save of convert_html, app.py line 89
SaveConverted == Save("A", NoName)

\* generate_short_token for a stored file
Generate(file_id, expires_in) ==
    /\ file_id \in Keys(file_metadata)
    /\ \E rand \in 0..(RandSpace - 1) :
         LET g == GenerateShortToken(file_id, expires_in, now, rand)
         IN  IF g.err
             THEN /\ failed' = failed \cup {[op |-> "generate_short_token", arg |-> expires_in]}
                  /\ UNCHANGED <<token, grant, result>>
             ELSE /\ token' = g.val
                  /\ grant' = [file_id |-> file_id, issued_at |-> now, ttl |-> expires_in]
                  /\ result' = [op |-> "generate_short_token", val |-> g.val]
                  /\ UNCHANGED failed
    /\ UNCHANGED <<file_metadata, disk, now, saved, removed, sweep, reader, writer>>
    /\ UNCHANGED notService

\* verify_short_token for a token of the format; get_all_file_ids is
\* called, and may fill the index, once the token passed its own tests
Verify(tok) ==
    /\ token # <<>>
    /\ IF TokenAccepted(tok, now)
       THEN \E all_file_ids \in Listings(file_metadata, disk) :
              /\ file_metadata' = GetAllFileIds(file_metadata, disk, all_file_ids)
              /\ result' = [op |-> "verify_short_token",
                            val |-> VerifyShortToken(tok, now, all_file_ids)]
       ELSE /\ result' = [op |-> "verify_short_token", val |-> NoFile]
            /\ UNCHANGED file_metadata
    /\ UNCHANGED <<disk, now, saved, removed, sweep, reader, writer, token, grant, failed>>
    /\ UNCHANGED notService

NextToken ==
    \/ SaveConverted
    \/ \E file_id \in Ids, expires_in \in ExpiresIn : Generate(file_id, expires_in)
    \/ \E tok \in TokenSpace : Verify(tok)
    \/ Cleanup
    \/ Tick

SpecToken == InitService /\ [][NextToken]_vars

\* ------------------------------------------------ the /api/convert handler

\* the requests: not JSON, without html, with html the converter fails on,
\* with html it converts
Requests == {"not json", "no html", "convert fails", "converts"}

\* the expires_in of the requests: those of ExpiresIn and one longer than
\* the retention of the files
ConvertExpiresIn == ExpiresIn \cup {RetentionSeconds + 1}

\* the initial state of the service answering requests
InitConvert ==
    /\ ServiceIdle
    /\ RenderIdle
    /\ StyleIdle
    /\ WalkIdle
    /\ TableIdle

\* convert_html, app.py lines 64-104: the answers 400 of lines 72-81, then
\* convert, storage.save and generate_short_token inside the try, every
\* exception answered with 500
Convert(request, expires_in) ==
    /\ IF request \in {"not json", "no html"}
       THEN /\ result' = [op |-> "convert", val |-> 400]
            /\ UNCHANGED <<file_metadata, disk, saved, token, grant, failed>>
       ELSE IF request = "convert fails"
       THEN /\ result' = [op |-> "convert", val |-> 500]
            /\ UNCHANGED <<file_metadata, disk, saved, token, grant, failed>>
       ELSE /\ Cardinality(DOMAIN saved) < MaxSaves
            /\ \E file_id \in Ids \ ((DOMAIN saved) \cup Keys(file_metadata)),
                  rand \in 0..(RandSpace - 1) :
                 \E s \in {LocalSave(file_metadata, disk, file_id, "A", NoName, now)},
                    g \in {GenerateShortToken(file_id, expires_in, now, rand)} :
                     /\ file_metadata' = s.meta
                     /\ disk' = s.disk
                     /\ saved' = Write(saved, file_id, "A")
                     /\ IF g.err
                        THEN /\ result' = [op |-> "convert", val |-> 500]
                             /\ failed' = failed \cup {[op |-> "generate_short_token",
                                                        arg |-> expires_in]}
                             /\ UNCHANGED <<token, grant>>
                        ELSE /\ result' = [op |-> "convert", val |-> 200]
                             /\ token' = g.val
                             /\ grant' = [file_id |-> file_id, issued_at |-> now,
                                          ttl |-> expires_in]
                             /\ UNCHANGED failed
    /\ UNCHANGED <<now, removed, sweep, reader, writer>>
    /\ UNCHANGED notService

NextConvert ==
    \/ \E request \in Requests, expires_in \in ConvertExpiresIn : Convert(request, expires_in)
    \/ \E tok \in TokenSpace : Verify(tok)
    \/ \E file_id \in Ids : Get(file_id)
    \/ Cleanup
    \/ Tick

SpecConvert == InitConvert /\ [][NextConvert]_vars

\* --------------------------- the cleanup thread beside the request threads

\* save up to line 50: the id drawn and the file written
SaveWrite(file_content) ==
    /\ writer.pc = "idle"
    /\ Cardinality(DOMAIN saved) < MaxSaves
    /\ \E file_id \in Ids \ ((DOMAIN saved) \cup Keys(file_metadata)) :
         /\ disk' = Write(disk, AutoPath(file_id), [bytes |-> file_content, ctime |-> now])
         /\ saved' = Write(saved, file_id, file_content)
         /\ writer' = [pc |-> "index", file_id |-> file_id, file_path |-> AutoPath(file_id)]
    /\ UNCHANGED <<file_metadata, now, removed, sweep, reader, token, grant, result, failed>>
    /\ UNCHANGED notService

\* save, lines 53-59: the entry set
SaveIndex ==
    /\ writer.pc = "index"
    /\ file_metadata' = DictSet(file_metadata, MetaEntry(writer.file_id, writer.file_path, now))
    /\ result' = [op |-> "save", val |-> writer.file_id]
    /\ writer' = WriterIdle
    /\ UNCHANGED <<disk, now, saved, removed, sweep, reader, token, grant, failed>>
    /\ UNCHANGED notService

\* get, lines 71-75
GetLookup(file_id) ==
    /\ reader.pc = "idle"
    /\ IF file_id \notin Keys(file_metadata)
       THEN /\ result' = [op |-> "get", val |-> None]
            /\ UNCHANGED reader
       ELSE /\ reader' = [pc |-> "exists", file_path |-> Entry(file_metadata, file_id).file_path]
            /\ UNCHANGED result
    /\ UNCHANGED <<file_metadata, disk, now, saved, removed, sweep, writer, token, grant, failed>>
    /\ UNCHANGED notService

\* get, lines 76-77
GetExists ==
    /\ reader.pc = "exists"
    /\ IF reader.file_path \notin DOMAIN disk
       THEN /\ result' = [op |-> "get", val |-> None]
            /\ reader' = ReaderIdle
       ELSE /\ reader' = [reader EXCEPT !.pc = "read"]
            /\ UNCHANGED result
    /\ UNCHANGED <<file_metadata, disk, now, saved, removed, sweep, writer, token, grant, failed>>
    /\ UNCHANGED notService

\* get, lines 79-80: open raises FileNotFoundError when the file is gone
GetRead ==
    /\ reader.pc = "read"
    /\ IF reader.file_path \in DOMAIN disk
       THEN /\ result' = [op |-> "get", val |-> disk[reader.file_path].bytes]
            /\ UNCHANGED failed
       ELSE /\ failed' = failed \cup {[op |-> "get", arg |-> 0]}
            /\ UNCHANGED result
    /\ reader' = ReaderIdle
    /\ UNCHANGED <<file_metadata, disk, now, saved, removed, sweep, writer, token, grant>>
    /\ UNCHANGED notService

\* get_all_file_ids, called by verify_short_token
ListFileIds ==
    /\ \E file_ids \in Listings(file_metadata, disk) :
         /\ file_metadata' = GetAllFileIds(file_metadata, disk, file_ids)
         /\ result' = [op |-> "get_all_file_ids", val |-> file_ids]
    /\ UNCHANGED <<disk, now, saved, removed, sweep, reader, writer, token, grant, failed>>
    /\ UNCHANGED notService

\* cleanup_expired, line 111 and the iterator of line 113 created
SweepStart ==
    /\ sweep.pc = "idle"
    /\ sweep' = [pc |-> "iter", now |-> now, used |-> Len(file_metadata), pos |-> 1,
                 expired_ids |-> <<>>, k |-> 1]
    /\ UNCHANGED <<file_metadata, disk, now, saved, removed, reader, writer,
                   token, grant, result, failed>>
    /\ UNCHANGED notService

\* one step of the iterator over file_metadata.items(): RuntimeError when the
\* dict changed size since the iterator was made; cleanup_task catches it
\* and sleeps, the sweep is lost
SweepIter ==
    /\ sweep.pc = "iter"
    /\ IF Len(file_metadata) # sweep.used
       THEN /\ failed' = failed \cup {[op |-> "cleanup_expired", arg |-> 0]}
            /\ sweep' = SweepIdle
       ELSE /\ UNCHANGED failed
            /\ IF sweep.pos > Len(file_metadata)
               THEN sweep' = [sweep EXCEPT !.pc = "delete"]
               ELSE LET e == file_metadata[sweep.pos]
                    IN  sweep' = [sweep EXCEPT
                            !.pos = @ + 1,
                            !.expired_ids = IF e.expires_at < sweep.now
                                            THEN Append(@, e.id) ELSE @]
    /\ UNCHANGED <<file_metadata, disk, now, saved, removed, reader, writer,
                   token, grant, result>>
    /\ UNCHANGED notService

\* the loop of lines 118-120 and delete, lines 92-97, up to os.path.exists
SweepDelete ==
    /\ sweep.pc = "delete"
    /\ IF sweep.k > Len(sweep.expired_ids)
       THEN /\ sweep' = SweepIdle
            /\ result' = [op |-> "cleanup_expired", val |-> Len(sweep.expired_ids)]
       ELSE /\ UNCHANGED result
            /\ IF sweep.expired_ids[sweep.k] \notin Keys(file_metadata)
               THEN sweep' = [sweep EXCEPT !.k = @ + 1]
               ELSE IF Entry(file_metadata, sweep.expired_ids[sweep.k]).file_path \in DOMAIN disk
               THEN sweep' = [sweep EXCEPT !.pc = "remove"]
               ELSE sweep' = [sweep EXCEPT !.pc = "pop"]
    /\ UNCHANGED <<file_metadata, disk, now, saved, removed, reader, writer,
                   token, grant, failed>>
    /\ UNCHANGED notService

\* delete, line 98
SweepRemove ==
    /\ sweep.pc = "remove"
    /\ disk' = Remove(disk, Entry(file_metadata, sweep.expired_ids[sweep.k]).file_path)
    /\ sweep' = [sweep EXCEPT !.pc = "pop"]
    /\ UNCHANGED <<file_metadata, now, saved, removed, reader, writer,
                   token, grant, result, failed>>
    /\ UNCHANGED notService

\* delete, lines 101-102
SweepPop ==
    /\ sweep.pc = "pop"
    /\ file_metadata' = DictPop(file_metadata, sweep.expired_ids[sweep.k])
    /\ removed' = removed \cup {sweep.expired_ids[sweep.k]}
    /\ sweep' = [sweep EXCEPT !.pc = "delete", !.k = @ + 1]
    /\ UNCHANGED <<disk, now, saved, reader, writer, token, grant, result, failed>>
    /\ UNCHANGED notService

NextSweep ==
    \/ SaveWrite("A")
    \/ SaveIndex
    \/ \E file_id \in Ids : GetLookup(file_id)
    \/ GetExists
    \/ GetRead
    \/ ListFileIds
    \/ SweepStart
    \/ SweepIter
    \/ SweepDelete
    \/ SweepRemove
    \/ SweepPop
    \/ Tick

SpecSweep == InitService /\ [][NextSweep]_vars

\* ------------------------------------------------------------- style values
\* A CSS value is the sequence of its symbols: every digit and punctuation
\* mark is one symbol, every run of letters is one symbol ("pt", "inf",
\* "SimSun"), so "16px" is <<"1", "6", "px">> and "#12" is <<"#", "1", "2">>.
\* The two CJK font names of the code are written "SongTi" (宋体) and
\* "HeiTi" (黑体), the CJK size names by their pinyin.

\* styles.get(name, '')
StyleGet(styles, name) == IF name \in DOMAIN styles THEN styles[name] ELSE <<>>

\* str.startswith for a one-symbol prefix, str.endswith for a one-symbol suffix
StartsWith(s, x) == s # <<>> /\ Head(s) = x

EndsWith(s, x) == s # <<>> /\ Last(s) = x

Digits == {"0", "1", "2", "3", "4", "5", "6", "7", "8", "9"}

HexDigits == Digits \cup {"a", "b", "c", "d", "e", "f", "A", "B", "C", "D", "E", "F"}

HexVal(c) ==
    CASE c = "0" -> 0 [] c = "1" -> 1 [] c = "2" -> 2 [] c = "3" -> 3 [] c = "4" -> 4
      [] c = "5" -> 5 [] c = "6" -> 6 [] c = "7" -> 7 [] c = "8" -> 8 [] c = "9" -> 9
      [] c \in {"a", "A"} -> 10 [] c \in {"b", "B"} -> 11 [] c \in {"c", "C"} -> 12
      [] c \in {"d", "D"} -> 13 [] c \in {"e", "E"} -> 14 [] c \in {"f", "F"} -> 15

\* s[a:b] of Python, a and b counted from 0
Slice(s, a, b) == SubSeq(s, a + 1, Min(b, Len(s)))

\* int(s, 16): ValueError on the empty string and on any other symbol
RECURSIVE HexNumber(_, _)
HexNumber(s, acc) ==
    IF s = <<>> THEN acc ELSE HexNumber(Tail(s), acc * 16 + HexVal(Head(s)))

IntBase16(s) ==
    IF s = <<>> \/ \E k \in 1..Len(s) : s[k] \notin HexDigits THEN Err
    ELSE Ok(HexNumber(s, 0))

\* the number of digits of s from position k on
RECURSIVE DigitRun(_, _)
DigitRun(s, k) ==
    IF k > Len(s) \/ s[k] \notin Digits THEN 0 ELSE 1 + DigitRun(s, k + 1)

\* int(s) of a run of digits
RECURSIVE DecNumber(_, _)
DecNumber(s, acc) ==
    IF s = <<>> THEN acc ELSE DecNumber(Tail(s), acc * 10 + HexVal(Head(s)))

\* a float is kept in thousandths: [kind |-> "fin", milli |-> m], or the
\* values float() also returns, [kind |-> "inf"] and [kind |-> "nan"]
Fin(m) == [kind |-> "fin", milli |-> m]

\* thousandths of the fraction digits f (those after the third are cut)
FractionMilli(f) ==
    LET g == SubSeq(f, 1, Min(3, Len(f)))
    IN  IF Len(g) = 0 THEN 0
        ELSE IF Len(g) = 1 THEN DecNumber(g, 0) * 100
        ELSE IF Len(g) = 2 THEN DecNumber(g, 0) * 10
        ELSE DecNumber(g, 0)

\* re.match(r'(\d+\.?\d*)', s): the digits, an optional point and more
\* digits at the start of s; len is the length matched (0: no match)
NumberPrefix(s) ==
    LET n == DigitRun(s, 1)
        point == n > 0 /\ n < Len(s) /\ s[n + 1] = "."
        f == IF point THEN DigitRun(s, n + 2) ELSE 0
    IN  IF n = 0 THEN [len |-> 0, milli |-> 0]
        ELSE [len |-> n + (IF point THEN 1 + f ELSE 0),
              milli |-> DecNumber(SubSeq(s, 1, n), 0) * 1000
                        + FractionMilli(SubSeq(s, n + 2, n + 1 + f))]

\* re.match(r'(\d+\.?\d*)' + unit, s) for the unit symbols allowed next
NumberWithUnit(s, units) ==
    LET m == NumberPrefix(s)
    IN  IF m.len > 0 /\ m.len < Len(s) /\ s[m.len + 1] \in units THEN Ok(m.milli) ELSE Err

\* float(s): a decimal number, or the words inf and nan; ValueError otherwise
FloatOf(s) ==
    LET m == NumberPrefix(s)
    IN  IF m.len > 0 /\ m.len = Len(s) THEN Ok(Fin(m.milli))
        ELSE IF s \in {<<"inf">>, <<"infinity">>} THEN Ok([kind |-> "inf"])
        ELSE IF s = <<"nan">> THEN Ok([kind |-> "nan"])
        ELSE Err

\* the exception int(x) raises for a float ("none": none), which Length
\* (Pt, Inches, Emu) applies to its argument
IntRaises(x) ==
    IF x.kind = "inf" THEN "OverflowError"
    ELSE IF x.kind = "nan" THEN "ValueError"
    ELSE "none"

\* Pt(x) in EMU for x in thousandths of a point: int(x * 12700)
Pt(milli) == (milli * 127) \div 10

\* value *= 0.75
ThreeQuarters(milli) == (milli * 3) \div 4

\* ------------------------------------------------------------- paragraphs

\* unset length (None)
NoLength == -1

\* a run as add_run leaves it
Run(text) ==
    [text |-> text, name |-> None, eastAsia |-> None, size |-> 0, color |-> <<>>,
     bold |-> "unset", italic |-> "unset"]

\* a paragraph as add_paragraph leaves it; add_paragraph(text) adds one run
\* when text is not empty
Paragraph(text, style) ==
    [style |-> style, alignment |-> None,
     runs |-> IF text = <<>> THEN <<>> ELSE <<Run(text)>>,
     line_spacing |-> NoLength, space_before |-> NoLength, first_line_indent |-> NoLength,
     picture |-> <<>>]

\* paragraph.add_run(text)
AddRun(para, text) == [para EXCEPT !.runs = Append(@, Run(text))]

\* for run in paragraph.runs: one attribute set
SetRuns(para, field, value) ==
    [para EXCEPT !.runs = [k \in 1..Len(para.runs) |-> [para.runs[k] EXCEPT ![field] = value]]]

\* FONT_FAMILY_MAP
FONT_FAMILY_MAP ==
    [f \in {"SimSun", "SimHei", "Arial"} |->
        IF f = "SimSun" THEN "SongTi" ELSE IF f = "SimHei" THEN "HeiTi" ELSE "Arial"]

\* CN_FONT_SIZE_MAP, in thousandths of a point (sanhao, xiaosi and wuhao of
\* the sixteen names)
CN_FONT_SIZE_MAP ==
    [f \in {"sanhao", "xiaosi", "wuhao"} |->
        IF f = "sanhao" THEN 16000 ELSE IF f = "xiaosi" THEN 12000 ELSE 10500]

\* font_family.split(','), each part stripped of spaces and quotes; a font
\* name is one symbol, so the three one-word names of the map are kept
RECURSIVE FontFamilies(_)
FontFamilies(s) ==
    LET t == SelectSeq(s, LAMBDA c : c \notin {" ", "'"})
        p == IndexOf(t, ",")
    IN  IF t = <<>> THEN <<>>
        ELSE IF p = 0 THEN <<t>>
        ELSE <<SubSeq(t, 1, p - 1)>> \o FontFamilies(SubSeq(t, p + 1, Len(t)))

\* lines 293-303: the first family of the map
RECURSIVE FirstKnownFont(_)
FirstKnownFont(fs) ==
    IF fs = <<>> THEN None
    ELSE IF Len(Head(fs)) = 1 /\ Head(fs)[1] \in DOMAIN FONT_FAMILY_MAP
         THEN FONT_FAMILY_MAP[Head(fs)[1]]
    ELSE FirstKnownFont(Tail(fs))

\* run.font.name = font_name, and w:eastAsia for the two CJK fonts
SetFont(para, font_name) ==
    IF font_name \in {"SongTi", "HeiTi"}
    THEN SetRuns(SetRuns(para, "name", font_name), "eastAsia", font_name)
    ELSE SetRuns(para, "name", font_name)

\* lines 286-303
ApplyFontFamily(para, styles) ==
    LET font_name == FirstKnownFont(FontFamilies(StyleGet(styles, "font-family")))
    IN  IF font_name = None THEN para ELSE SetFont(para, font_name)

\* lines 305-328: pt_size in EMU (0: None, or a size of zero, both skipped)
FontSize(font_size) ==
    IF Len(font_size) = 1 /\ font_size[1] \in DOMAIN CN_FONT_SIZE_MAP
    THEN Pt(CN_FONT_SIZE_MAP[font_size[1]])
    ELSE LET m == NumberPrefix(font_size)
         IN  IF m.len = 0 THEN 0
             ELSE IF Contains(font_size, "px") THEN Pt(ThreeQuarters(m.milli))
             ELSE Pt(m.milli)

ApplyFontSize(para, styles) ==
    LET pt_size == FontSize(StyleGet(styles, "font-size"))
    IN  IF pt_size = 0 THEN para ELSE SetRuns(para, "size", pt_size)

\* line 337: the three pairs of a colour that starts with '#'
HexTriplet(v) ==
    LET r == IntBase16(Slice(v, 1, 3))
        g == IntBase16(Slice(v, 3, 5))
        b == IntBase16(Slice(v, 5, 7))
    IN  IF r.err \/ g.err \/ b.err THEN Err ELSE Ok(<<r.val, g.val, b.val>>)

\* lines 330-347: the colour the runs are given (<<>>: they are left alone)
TextColor(styles) ==
    LET font_color == StyleGet(styles, "color")
    IN  IF font_color = <<>> THEN <<0, 0, 0>>
        ELSE IF StartsWith(font_color, "#") /\ ~HexTriplet(font_color).err
             THEN HexTriplet(font_color).val
        ELSE <<>>

ApplyColor(para, styles) ==
    IF TextColor(styles) = <<>> THEN para ELSE SetRuns(para, "color", TextColor(styles))

\* lines 349-373
ApplyWeightStyleAlign(para, styles) ==
    LET p1 == IF StyleGet(styles, "font-weight") = <<"bold">>
              THEN SetRuns(para, "bold", "yes") ELSE para
        p2 == IF StyleGet(styles, "font-style") = <<"italic">>
              THEN SetRuns(p1, "italic", "yes") ELSE p1
        text_align == StyleGet(styles, "text-align")
    IN  IF text_align \in {<<"center">>, <<"right">>, <<"justify">>}
        THEN [p2 EXCEPT !.alignment = text_align[1]] ELSE p2

\* lines 375-386: float(line_height) and the Length made of it; only
\* ValueError is caught
ApplyLineHeight(para, styles) ==
    LET line_height == StyleGet(styles, "line-height")
        f == FloatOf(line_height)
    IN  IF line_height = <<>> \/ f.err THEN [para |-> para, error |-> "none"]
        ELSE IF IntRaises(f.val) = "ValueError" THEN [para |-> para, error |-> "none"]
        ELSE IF IntRaises(f.val) # "none" THEN [para |-> para, error |-> IntRaises(f.val)]
        ELSE [para |-> [para EXCEPT !.line_spacing = (f.val.milli * 1524) \div 10],
              error |-> "none"]

\* lines 388-400
ApplyMarginTop(para, styles) ==
    LET margin_top == StyleGet(styles, "margin-top")
        m == NumberWithUnit(margin_top, {"em"})
    IN  IF EndsWith(margin_top, "em") /\ ~m.err
        THEN [para EXCEPT !.space_before = Pt(m.val * 12)]
        ELSE para

\* lines 404-432: the indent a text-indent value gives (NoLength: none set)
IndentOf(text_indent) ==
    IF EndsWith(text_indent, "em")
    THEN LET m == NumberWithUnit(text_indent, {"em"})
         IN  IF m.err THEN NoLength ELSE Pt(m.val * 12)
    ELSE IF EndsWith(text_indent, "px") \/ EndsWith(text_indent, "pt")
    THEN LET m == NumberWithUnit(text_indent, {"px", "pt"})
         IN  IF m.err THEN NoLength
             ELSE IF EndsWith(text_indent, "px") THEN Pt(ThreeQuarters(m.val))
             ELSE Pt(m.val)
    ELSE IF EndsWith(text_indent, "cm")
    THEN LET m == NumberWithUnit(text_indent, {"cm"})
         IN  IF m.err THEN NoLength ELSE Pt((m.val * 283) \div 10)
    ELSE NoLength

\* the default first-line indent of line 439, Pt(28)
DefaultIndent == 355600

\* lines 402-440
ApplyTextIndent(para, styles) ==
    LET text_indent == StyleGet(styles, "text-indent")
    IN  IF text_indent # <<>>
        THEN IF IndentOf(text_indent) = NoLength THEN para
             ELSE [para EXCEPT !.first_line_indent = IndentOf(text_indent)]
        ELSE IF para.style = "Normal" /\ para.first_line_indent = NoLength
             THEN [para EXCEPT !.first_line_indent = DefaultIndent]
        ELSE para

\* _apply_paragraph_styles: the paragraph it leaves and the exception it
\* raises ("none": none)
ApplyParagraphStyles(para, styles) ==
    IF DOMAIN styles = {} THEN [para |-> para, error |-> "none"]
    ELSE LET p1 == ApplyWeightStyleAlign(
                       ApplyColor(ApplyFontSize(ApplyFontFamily(para, styles), styles), styles),
                       styles)
             lh == ApplyLineHeight(p1, styles)
         IN  IF lh.error # "none" THEN lh
             ELSE [para |-> ApplyTextIndent(ApplyMarginTop(lh.para, styles), styles),
                   error |-> "none"]

\* ---------------------------------------------------------------- elements
\* A text is the sequence of its symbols, a word or a space each.

\* str.strip()
RECURSIVE LStrip(_)
LStrip(s) == IF s # <<>> /\ Head(s) = " " THEN LStrip(Tail(s)) ELSE s

RECURSIVE RStrip(_)
RStrip(s) == IF s # <<>> /\ Last(s) = " " THEN RStrip(Front(s)) ELSE s

Strip(s) == LStrip(RStrip(s))

\* An element as _process_element meets it: its tag, its classes, the
\* current_section it is called with, its resolved styles
\* (_get_element_styles), and its content. The text of a <p> is lead, title
\* and rest one after the other, title being the text of its first
\* <strong class="keyword-title"> (has_title: there is one); items are the
\* texts of the <li> of a list; src and alt are the attributes of an <img>
\* (has_src, has_alt: the attribute is there) and embeds tells whether its
\* resource can be loaded; rows are the <tr> of a <table>, each with the
\* rowspan and colspan of its td and th.
Element(name, classes, section, styles) ==
    [name |-> name, classes |-> classes, section |-> section, styles |-> styles,
     lead |-> <<>>, has_title |-> FALSE, title |-> <<>>, rest |-> <<>>,
     items |-> <<>>, has_src |-> FALSE, src |-> <<>>, has_alt |-> FALSE, alt |-> <<>>,
     embeds |-> FALSE, rows |-> <<>>]

\* element.get_text()
GetText(e) == e.lead \o e.title \o e.rest

\* lines 555-574: the level of the heading added
HeadingLevel(e) ==
    IF "chapter-title" \in e.classes THEN 1
    ELSE IF "section-title" \in e.classes THEN 2
    ELSE IF "subsection-title" \in e.classes THEN 3
    ELSE IF e.name = "h1" THEN 1 ELSE IF e.name = "h2" THEN 2 ELSE 3

HeadingStyle(level) ==
    IF level = 1 THEN "Heading 1" ELSE IF level = 2 THEN "Heading 2" ELSE "Heading 3"

\* Pt(16) of lines 587 and 633
TitleSize == 203200

\* lines 583-587 and 629-633: centered, HeiTi, 16pt
TitleOverride(para) ==
    SetRuns(SetFont([para EXCEPT !.alignment = "center"], "HeiTi"), "size", TitleSize)

\* lines 553-591
ProcessHeading(e) ==
    LET p0 == Paragraph(Strip(GetText(e)), HeadingStyle(HeadingLevel(e)))
        p1 == SetRuns(p0, "color", <<0, 0, 0>>)
        p2 == IF e.section = "abstract" /\ e.name = "h1" THEN TitleOverride(p1) ELSE p1
        r == ApplyParagraphStyles(p2, e.styles)
    IN  [paras |-> <<r.para>>, error |-> r.error]

\* lines 598-619
ProcessKeywords(e) ==
    LET keyword_title == e.title
        keywords_content == Strip(SubSeq(GetText(e), Len(keyword_title) + 1, Len(GetText(e))))
        title_run == [Run(keyword_title) EXCEPT
                          !.bold = "yes", !.name = "SongTi", !.eastAsia = "SongTi"]
        content_run == [Run(keywords_content) EXCEPT
                          !.bold = "no", !.name = "SongTi", !.eastAsia = "SongTi"]
        p0 == [Paragraph(<<>>, "Normal") EXCEPT !.runs = <<title_run, content_run>>]
        r == ApplyParagraphStyles(p0, e.styles)
    IN  [paras |-> <<r.para>>, error |-> r.error]

\* lines 621-643
ProcessParagraph(e) ==
    LET p0 == Paragraph(Strip(GetText(e)), "Normal")
        p1 == IF e.section = "abstract" /\ "summary-title" \in e.classes
              THEN TitleOverride(p0) ELSE p0
        p2 == IF "english" \in e.classes THEN SetRuns(p1, "name", "Times New Roman") ELSE p1
        r == ApplyParagraphStyles(p2, e.styles)
    IN  [paras |-> <<r.para>>, error |-> r.error]

\* lines 645-659: one paragraph for each <li>, until one raises
RECURSIVE ProcessList(_, _)
ProcessList(e, items) ==
    IF items = <<>> THEN [paras |-> <<>>, error |-> "none"]
    ELSE LET p0 == Paragraph(Strip(Head(items)),
                             IF e.name = "ul" THEN "List Bullet" ELSE "List Number")
             r == ApplyParagraphStyles(p0, e.styles)
             more == ProcessList(e, Tail(items))
         IN  IF r.error # "none" THEN [paras |-> <<r.para>>, error |-> r.error]
             ELSE [paras |-> <<r.para>> \o more.paras, error |-> more.error]

\* f"[图片: {alt}]"
Placeholder(alt) == <<"[", "image", ":", " ">> \o alt \o <<"]">>

\* ProcessImage with a placeholder that ignores the alt attribute
ProcessImageSrcOnly(e) ==
    LET shell == AddRun(Paragraph(<<>>, "Normal"), <<>>)
    IN  IF e.embeds
        THEN [paras |-> <<[shell EXCEPT !.picture = e.src]>>, error |-> "none"]
        ELSE [paras |-> <<shell, [Paragraph(Placeholder(e.src), "Normal")
                                     EXCEPT !.alignment = "center"]>>,
              error |-> "none"]

\* lines 661-673. Document.add_picture adds a paragraph and a run and then
\* loads the picture into the run, so a picture that cannot be loaded leaves
\* its empty paragraph before the placeholder.
ProcessImage(e) ==
    LET shell == AddRun(Paragraph(<<>>, "Normal"), <<>>)
        alt == IF e.has_alt THEN e.alt ELSE e.src
    IN  IF e.embeds
        THEN [paras |-> <<[shell EXCEPT !.picture = e.src]>>, error |-> "none"]
        ELSE [paras |-> <<shell, [Paragraph(Placeholder(alt), "Normal")
                                     EXCEPT !.alignment = "center"]>>,
              error |-> "none"]

\* _apply_table_styles: the exception it raises ("none": none). The width
\* is a percentage, float(width.strip('%')) that Inches makes an integer of,
\* or a number of pixels; ValueError and AttributeError are caught.
ApplyTableStyles(styles) ==
    LET width == StyleGet(styles, "width")
        kept == {k \in 1..Len(width) : width[k] # "%"}
        inner == IF kept = {} THEN <<>>
                 ELSE SubSeq(width, CHOOSE a \in kept : \A b \in kept : a <= b,
                                    CHOOSE a \in kept : \A b \in kept : a >= b)
        f == FloatOf(inner)
    IN  IF DOMAIN styles = {} \/ width = <<>> \/ ~Contains(width, "%") \/ f.err THEN "none"
        ELSE IF IntRaises(f.val) = "OverflowError" THEN "OverflowError"
        ELSE "none"

\* the block doc.add_table adds
TableBlock(R, C) == [style |-> "Table Grid", rows |-> R, cols |-> C]

\* _process_table without the return of line 708
ProcessTableAnyCols(e) ==
    IF e.rows = <<>> THEN [paras |-> <<>>, error |-> "none"]
    ELSE [paras |-> <<TableBlock(Len(e.rows), MaxCols(e.rows))>>,
          error |-> ApplyTableStyles(e.styles)]

\* _process_table up to line 718: nothing for a table without rows or
\* without columns, else the table of len(rows) x max_cols and its styles.
\* The loop over the cells that follows is ProcessCell, NextRow and FillCell.
ProcessTable(e) ==
    IF e.rows = <<>> THEN [paras |-> <<>>, error |-> "none"]
    ELSE IF MaxCols(e.rows) = 0 THEN [paras |-> <<>>, error |-> "none"]
    ELSE [paras |-> <<TableBlock(Len(e.rows), MaxCols(e.rows))>>,
          error |-> ApplyTableStyles(e.styles)]

\* _process_element for an element that is not a div: the blocks it adds
\* and the exception it raises ("none": none)
ProcessElement(e) ==
    IF e.name = "table" THEN ProcessTable(e)
    ELSE IF e.name \in {"h1", "h2", "h3"} THEN ProcessHeading(e)
    ELSE IF e.name = "p"
         THEN IF e.section = "keywords" /\ e.has_title THEN ProcessKeywords(e)
              ELSE ProcessParagraph(e)
    ELSE IF e.name \in {"ul", "ol"} THEN ProcessList(e, e.items)
    ELSE IF e.name = "img" /\ e.has_src /\ e.src # <<>> THEN ProcessImage(e)
    ELSE [paras |-> <<>>, error |-> "none"]

\* the most properties of a resolved style
MaxProps == 2

\* the values of the resolved styles
StyleValues ==
    [p \in {"font-family", "font-size", "color", "font-weight", "text-align",
            "line-height", "margin-top", "text-indent"} |->
        CASE p = "font-family" -> {<<"SimSun">>, <<"Arial", ",", " ", "SimHei">>}
          [] p = "font-size" -> {<<"1", "2", "pt">>, <<"1", "4", "px">>, <<"1", "1">>, <<"xiaosi">>,
                                 <<"big">>, <<"2", "em">>}
          [] p = "color" -> {<<>>, <<"red">>, <<"#", "1", "2">>,
                             <<"#", "3", "3", "6", "6", "C", "C">>,
                             <<"rgb", "(", "5", "1", ",", "1", "0", "2", ",", "2", "0", "4", ")">>}
          [] p = "font-weight" -> {<<"bold">>, <<"normal">>}
          [] p = "text-align" -> {<<"right">>, <<"left">>}
          [] p = "line-height" -> {<<"1", ".", "5">>, <<"normal">>, <<"inf">>, <<"nan">>}
          [] p = "margin-top" -> {<<"1", "em">>, <<"1", "0", "px">>}
          [] p = "text-indent" -> {<<"0">>, <<"0", "px">>, <<"2", "em">>, <<"1", "cm">>}]

\* the resolved styles: every map of at most MaxProps properties
StyleMapsOver(d) ==
    {f \in [d -> UNION {StyleValues[p] : p \in d}] : \A p \in d : f[p] \in StyleValues[p]}

StyleMaps ==
    UNION {StyleMapsOver(d) : d \in {x \in SUBSET DOMAIN StyleValues : Cardinality(x) <= MaxProps}}

\* the headings, paragraphs, lists and images the walker is given
Headings ==
    {[Element(n, c, s, st) EXCEPT !.rest = <<" ", "Summary", " ">>] :
        n \in {"h1", "h2"}, c \in {{}, {"section-title"}}, s \in {None, "abstract"},
        st \in StyleMaps}

PlainParagraphs ==
    {[Element("p", c, s, st) EXCEPT !.rest = <<"text">>] :
        c \in {{}, {"summary-title"}, {"english"}}, s \in {None, "abstract"}, st \in StyleMaps}

KeywordParagraphs ==
    {[Element("p", {}, "keywords", st) EXCEPT
          !.lead = l, !.has_title = h, !.title = IF h THEN <<"Keywords", ":">> ELSE <<>>,
          !.rest = <<" ", "a", ",", "b">>] :
        l \in {<<>>, <<"see", " ">>}, h \in BOOLEAN, st \in StyleMaps}

Lists ==
    {[Element(n, {}, None, st) EXCEPT !.items = <<<<"one">>, <<"two">>>>] :
        n \in {"ul", "ol"}, st \in StyleMaps}

Images ==
    {[Element("img", {}, None, EmptyMap) EXCEPT
          !.has_src = s # <<>>, !.src = s, !.has_alt = h, !.alt = IF h THEN a ELSE <<>>,
          !.embeds = b] :
        s \in {<<>>, <<"missing.png">>}, h \in BOOLEAN, a \in {<<>>, <<"diagram">>},
        b \in BOOLEAN}

\* the tables: without <tr>, with rows without cells, with cells of
\* colspan 0, with colspans that add up to 0, and with columns
TableRows ==
    {<<>>, <<<<>>>>, <<<<>>, <<>>>>, <<<<SourceCell(1, 0)>>>>,
     <<<<SourceCell(1, 0)>>, <<>>>>, <<<<SourceCell(1, 0 - 1), SourceCell(1, 1)>>>>,
     <<<<SourceCell(1, 1)>>>>,
     <<<<>>, <<SourceCell(1, 1), SourceCell(1, 1)>>>>}

Tables ==
    {[Element("table", {}, None, st) EXCEPT !.rows = r] :
        r \in TableRows,
        st \in {EmptyMap, [p \in {"width"} |-> <<"5", "0", "%">>],
                [p \in {"width"} |-> <<"inf", "%">>]}}

Elements ==
    Headings \cup PlainParagraphs \cup KeywordParagraphs \cup Lists \cup Images \cup Tables

\* the node that follows in the documents of two nodes
After == [Element("p", {}, None, [p \in {"font-weight"} |-> <<"bold">>]) EXCEPT !.rest = <<"after">>]

InitRender ==
    /\ StyleIdle
    /\ WalkIdle
    /\ TableIdle
    /\ ServiceIdle
    /\ style_tags = <<>>
    /\ css_text = <<>>
    /\ visited = <<>>
    /\ pending \in {<<e>> : e \in Elements} \cup {<<e, After>> : e \in Elements}
    /\ doc = <<>>
    /\ error = "none"

\* one call of _process_element by the loop of its parent: the paragraphs
\* of the node are added; an exception leaves convert, and no later node
\* is processed
ProcessNode ==
    /\ pending # <<>>
    /\ error = "none"
    /\ \E r \in {ProcessElement(Head(pending))} :
           /\ doc' = doc \o [k \in 1..Len(r.paras) |->
                                 [node |-> Head(pending), para |-> r.paras[k]]]
           /\ error' = r.error
    /\ pending' = Tail(pending)
    /\ visited' = Append(visited, Head(pending))
    /\ UNCHANGED <<style_tags, css_text>>
    /\ UNCHANGED notRender

NextRender == ProcessNode

SpecRender == InitRender /\ [][NextRender]_vars

\* ------------------------------------------------------------- extraction
\* The text of a <style> tag is the sequence of its symbols: the marks
\* { } ; : , . ' and the space are one symbol each, a word is one symbol,
\* "/*" and "*/" are one symbol each.

\* the first position from k on where s has x (0: none)
RECURSIVE FindFrom(_, _, _)
FindFrom(s, x, k) ==
    IF k > Len(s) THEN 0 ELSE IF s[k] = x THEN k ELSE FindFrom(s, x, k + 1)

\* line 112: re.sub(r'/\*.*?\*/', '', css_text): every comment that is closed
RECURSIVE RemoveComments(_)
RemoveComments(s) ==
    LET a == FindFrom(s, "/*", 1)
        b == IF a = 0 THEN 0 ELSE FindFrom(s, "*/", a + 1)
    IN  IF a = 0 \/ b = 0 THEN s
        ELSE SubSeq(s, 1, a - 1) \o RemoveComments(SubSeq(s, b + 1, Len(s)))

\* line 116: re.findall(r'([^{]+){([^}]+)}', s) from position k on: at each
\* start the longest run without "{", the "{", the longest run without "}",
\* the "}"; both runs have a symbol at least, and a start that fails gives
\* way to the next one
RECURSIVE FindAllRules(_, _)
FindAllRules(s, k) ==
    IF k > Len(s) THEN <<>>
    ELSE LET open == FindFrom(s, "{", k)
             close == IF open = 0 THEN 0 ELSE FindFrom(s, "}", open + 1)
         IN  IF open = 0 THEN <<>>
             ELSE IF open = k \/ close = 0 \/ close = open + 1 THEN FindAllRules(s, k + 1)
             ELSE <<[selector |-> SubSeq(s, k, open - 1),
                     properties |-> SubSeq(s, open + 1, close - 1)]>>
                  \o FindAllRules(s, close + 1)

\* str.split(sep): the parts between the separators, the empty ones too
RECURSIVE SplitOn(_, _)
SplitOn(s, sep) ==
    LET p == IndexOf(s, sep)
    IN  IF p = 0 THEN <<s>>
        ELSE <<SubSeq(s, 1, p - 1)>> \o SplitOn(SubSeq(s, p + 1, Len(s)), sep)

\* the string of a sequence of symbols
RECURSIVE Concat(_)
Concat(s) == IF s = <<>> THEN "" ELSE Head(s) \o Concat(Tail(s))

\* lines 142-143: the name before the first colon
PropName(prop) == Concat(Strip(SubSeq(prop, 1, IndexOf(prop, ":") - 1)))

\* lines 142-145: the value after the first colon, stripped, then without
\* backslashes and quotes
PropValue(prop) ==
    SelectSeq(Strip(SubSeq(prop, IndexOf(prop, ":") + 1, Len(prop))),
              LAMBDA c : c \notin {"\\", "\"", "'"})

\* style_properties with a loop that ends at the first item without a colon
RECURSIVE StylePropertiesBreaking(_, _)
StylePropertiesBreaking(props, acc) ==
    IF props = <<>> THEN acc
    ELSE LET prop == Head(props)
         IN  IF ~Contains(prop, ":") THEN acc
             ELSE IF PropValue(prop) # <<>>
                  THEN StylePropertiesBreaking(Tail(props),
                                       Update(acc, [n \in {PropName(prop)} |-> PropValue(prop)]))
             ELSE StylePropertiesBreaking(Tail(props), acc)

\* lines 137-148: style_properties of the items props, from the map acc on
RECURSIVE StyleProperties(_, _)
StyleProperties(props, acc) ==
    IF props = <<>> THEN acc
    ELSE LET prop == Head(props)
         IN  IF ~Contains(prop, ":") THEN StyleProperties(Tail(props), acc)
             ELSE IF PropValue(prop) # <<>>
                  THEN StyleProperties(Tail(props),
                                       Update(acc, [n \in {PropName(prop)} |-> PropValue(prop)]))
             ELSE StyleProperties(Tail(props), acc)

\* lines 129-132: the selectors of a rule, stripped, the empty ones left out
SingleSelectors(stripped) ==
    SelectSeq([k \in 1..Len(SplitOn(stripped, ",")) |-> Strip(SplitOn(stripped, ",")[k])],
              LAMBDA x : x # <<>>)

\* lines 129-151: the rule registered for each of its selectors
RECURSIVE RegisterEach(_, _, _)
RegisterEach(styles, sels, properties) ==
    IF sels = <<>> THEN styles
    ELSE RegisterEach(Register(styles, Head(sels),
                               StyleProperties(SplitOn(properties, ";"), EmptyMap)),
                      Tail(sels), properties)

\* lines 119-151: for selector, properties in rules
RECURSIVE ExtractRules(_, _)
ExtractRules(styles, rules) ==
    IF rules = <<>> THEN styles
    ELSE LET stripped == Strip(Head(rules).selector)
         IN  IF stripped = <<>> THEN ExtractRules(styles, Tail(rules))
             ELSE ExtractRules(RegisterEach(styles, SingleSelectors(stripped),
                                            Head(rules).properties),
                               Tail(rules))

\* line 116
RulesOf(text) == FindAllRules(RemoveComments(text), 1)

\* lines 104-151: one <style> tag read into styles
ExtractTag(styles, text) ==
    IF text = <<>> THEN styles ELSE ExtractRules(styles, RulesOf(text))

\* the most items of a rule
MaxItems == 2

\* the selector texts and the items of the rules: two well-formed items, one
\* in quotes, one without a value, one without a colon, one of spaces
SelectorTexts == {<<"p">>, <<" ", ".", "a", " ">>, <<"p", ",", " ", ".", "a">>}

ItemTexts ==
    {<<"color", ":", "red">>,
     <<" ", "font-size", " ", ":", " ", "1", "2", "pt">>,
     <<"font-family", ":", "'", "SimSun", "'">>,
     <<"color", ":", " ">>,
     <<"color", " ", "red">>,
     <<" ">>}

\* s1;s2;...
RECURSIVE JoinWith(_, _)
JoinWith(parts, sep) ==
    IF parts = <<>> THEN <<>>
    ELSE IF Len(parts) = 1 THEN Head(parts)
    ELSE Head(parts) \o <<sep>> \o JoinWith(Tail(parts), sep)

RuleTextsOf(most) ==
    {sel \o <<"{">> \o JoinWith(items, ";") \o <<"}">> :
        sel \in SelectorTexts,
        items \in UNION {[1..n -> ItemTexts] : n \in 1..most}}

RuleTexts == RuleTextsOf(MaxItems)

\* the texts of a <style> tag: one rule, or a rule before or after a rule
\* of one item
TagTexts ==
    RuleTexts \cup {r \o s : r \in RuleTexts, s \in RuleTextsOf(1)}
              \cup {s \o r : r \in RuleTexts, s \in RuleTextsOf(1)}

\* the other <style> tag of the documents of two tags: a comment, a rule
\* without properties and a rule for p
SecondTag ==
    <<"/*", "x", "{", "*/", "h1", "{", "}", "p", "{", "color", ":", "blue", "}">>

InitExtract ==
    /\ StyleIdle
    /\ WalkIdle
    /\ TableIdle
    /\ ServiceIdle
    /\ style_tags \in {<<t>> : t \in TagTexts} \cup {<<t, <<>>>> : t \in TagTexts}
                      \cup {<<SecondTag, t>> : t \in TagTexts}
                      \cup {<<s, t>> : s \in RuleTextsOf(1), t \in RuleTextsOf(1)}
    /\ css_text = <<>>
    /\ visited = <<>>
    /\ pending = <<>>
    /\ doc = <<>>
    /\ error = "none"

\* one round of the loop of line 103: the next <style> tag is read
ExtractStyleTag ==
    /\ style_tags # <<>>
    /\ css_text' = Head(style_tags)
    /\ css_styles' = ExtractTag(css_styles, Head(style_tags))
    /\ style_tags' = Tail(style_tags)
    /\ UNCHANGED <<dom, element_styles, selector, matched, resolved>>
    /\ UNCHANGED <<visited, pending, doc, error>>
    /\ UNCHANGED <<walkVars, tableVars, serviceVars>>

NextExtract == ExtractStyleTag

SpecExtract == InitExtract /\ [][NextExtract]_vars

\* ------------------------------------------------------------- table cells

RECURSIVE SkipSpaces(_, _)
SkipSpaces(s, k) == IF k <= Len(s) /\ s[k] = " " THEN SkipSpaces(s, k + 1) ELSE k

\* line 827: re.match(r'rgb\(\s*(\d+)\s*,\s*(\d+)\s*,\s*(\d+)\s*\)', v) and
\* the three groups as integers ("rgb" is one symbol)
RgbMatch(v) ==
    LET a1 == SkipSpaces(v, 3)
        n1 == DigitRun(v, a1)
        c1 == SkipSpaces(v, a1 + n1)
        a2 == SkipSpaces(v, c1 + 1)
        n2 == DigitRun(v, a2)
        c2 == SkipSpaces(v, a2 + n2)
        a3 == SkipSpaces(v, c2 + 1)
        n3 == DigitRun(v, a3)
        e3 == SkipSpaces(v, a3 + n3)
    IN  IF /\ Len(v) >= 2 /\ v[1] = "rgb" /\ v[2] = "("
           /\ n1 > 0 /\ c1 <= Len(v) /\ v[c1] = ","
           /\ n2 > 0 /\ c2 <= Len(v) /\ v[c2] = ","
           /\ n3 > 0 /\ e3 <= Len(v) /\ v[e3] = ")"
        THEN Ok(<<DecNumber(SubSeq(v, a1, a1 + n1 - 1), 0),
                  DecNumber(SubSeq(v, a2, a2 + n2 - 1), 0),
                  DecNumber(SubSeq(v, a3, a3 + n3 - 1), 0)>>)
        ELSE Err

HexSymbols == <<"0", "1", "2", "3", "4", "5", "6", "7", "8", "9", "a", "b", "c", "d", "e", "f">>

\* f"{n:02x}": the hex digits of n, two at least
RECURSIVE HexString(_)
HexString(n) ==
    IF n < 16 THEN <<HexSymbols[n + 1]>>
    ELSE HexString(n \div 16) \o <<HexSymbols[(n % 16) + 1]>>

Hex02(n) == IF n < 16 THEN <<"0">> \o HexString(n) ELSE HexString(n)

\* _rgb_to_hex
RgbToHex(t) == Hex02(t[1]) \o Hex02(t[2]) \o Hex02(t[3])

\* lines 817-835: the w:fill of the shading the cell is given (<<>>: none)
CellFill(styles) ==
    LET bg_color == StyleGet(styles, "background-color")
    IN  IF StartsWith(bg_color, "#")
        THEN IF HexTriplet(bg_color).err THEN <<>> ELSE RgbToHex(HexTriplet(bg_color).val)
        ELSE IF StartsWith(bg_color, "rgb")
        THEN IF RgbMatch(bg_color).err THEN <<>> ELSE RgbToHex(RgbMatch(bg_color).val)
        ELSE <<>>

\* _apply_cell_styles on a cell with the paragraph para
ApplyCellStyles(para, styles) ==
    IF DOMAIN styles = {} THEN [para |-> para, shading |-> <<>>]
    ELSE LET text_align == StyleGet(styles, "text-align")
         IN  [para |-> IF text_align \in {<<"center">>, <<"right">>, <<"left">>, <<"justify">>}
                       THEN [para EXCEPT !.alignment = text_align[1]] ELSE para,
              shading |-> CellFill(styles)]

\* lines 753-774 for a td or th placed on a target cell, which has one empty
\* paragraph: the paragraph and the shading of the target cell, and the
\* exception raised
ProcessCellContent(cell) ==
    LET target == Paragraph(<<>>, "Normal")
        cell_content == Strip(GetText(cell))
        p1 == AddRun(target, cell_content)
        p2 == IF cell.name = "th"
              THEN [SetRuns(p1, "bold", "yes") EXCEPT !.alignment = "center"] ELSE p1
        cs == ApplyCellStyles(p2, cell.styles)
        r == ApplyParagraphStyles(cs.para, cell.styles)
    IN  IF cell_content = <<>> THEN [para |-> target, shading |-> <<>>, error |-> "none"]
        ELSE [para |-> r.para, shading |-> cs.shading, error |-> r.error]

\* the values of the resolved styles of the cells
CellStyleValues ==
    [p \in {"background-color", "color", "text-align"} |->
        CASE p = "background-color" ->
                 {<<"#", "f", "f", "c", "c", "0", "0">>,
                  <<"#", "3", "3", "6", "6", "C", "C">>,
                  <<"rgb", "(", "5", "1", ",", "1", "0", "2", ",", "2", "0", "4", ")">>,
                  <<"rgb", "(", " ", "2", "5", "5", " ", ",", " ", "2", "0", "4", ",", "0", " ", ")">>,
                  <<"red">>}
          [] p = "color" ->
                 {<<"#", "3", "3", "6", "6", "C", "C">>,
                  <<"rgb", "(", "5", "1", ",", "1", "0", "2", ",", "2", "0", "4", ")">>}
          [] p = "text-align" -> {<<"center">>, <<"right">>, <<"left">>}]

CellStyleMapsOver(d) ==
    {f \in [d -> UNION {CellStyleValues[p] : p \in d}] : \A p \in d : f[p] \in CellStyleValues[p]}

CellStyleMaps ==
    UNION {CellStyleMapsOver(d) :
              d \in {x \in SUBSET DOMAIN CellStyleValues : Cardinality(x) <= MaxProps}}

\* the td and th of the rows, with and without text
Cells ==
    {[Element(n, {}, None, st) EXCEPT !.rest = t] :
        n \in {"td", "th"}, t \in {<<>>, <<" ">>, <<" ", "X">>}, st \in CellStyleMaps}

\* the cell that follows in the rows of two cells
NextCell == [Element("td", {}, None, EmptyMap) EXCEPT !.rest = <<"Y">>]

InitCells ==
    /\ StyleIdle
    /\ WalkIdle
    /\ TableIdle
    /\ ServiceIdle
    /\ style_tags = <<>>
    /\ css_text = <<>>
    /\ visited = <<>>
    /\ pending \in {<<c>> : c \in Cells} \cup {<<c, NextCell>> : c \in Cells}
    /\ doc = <<>>
    /\ error = "none"

\* one round of the loop of line 727 after the cell is placed: its text and
\* its styles are written to the target cell
FillCell ==
    /\ pending # <<>>
    /\ error = "none"
    /\ \E r \in {ProcessCellContent(Head(pending))} :
           /\ doc' = Append(doc, [node |-> Head(pending), para |-> r.para,
                                  shading |-> r.shading])
           /\ error' = r.error
    /\ pending' = Tail(pending)
    /\ visited' = Append(visited, Head(pending))
    /\ UNCHANGED <<style_tags, css_text>>
    /\ UNCHANGED notRender

NextCells == FillCell

SpecCells == InitCells /\ [][NextCells]_vars

\* ---------------------------------------------------------------- actions

\* the matcher on one selector and one element
InitMatch ==
    /\ dom \in MatchChains
    /\ selector \in DescendantSelectors
    /\ css_styles = <<>>
    /\ element_styles = EmptyMap
    /\ matched = "none"
    /\ resolved = 0
    /\ WalkIdle
    /\ TableIdle
    /\ ServiceIdle
    /\ RenderIdle

Match ==
    /\ matched = "none"
    /\ matched' = IF SelectorMatchesElement(selector, dom, 1) THEN "yes" ELSE "no"
    /\ UNCHANGED <<dom, css_styles, element_styles, selector, resolved>>
    /\ UNCHANGED notStyle

NextMatch == Match

SpecMatch == InitMatch /\ [][NextMatch]_vars

\* The selectors of an unsupported shape. The matcher looks for "." and " "
\* only, so a run of other characters is one symbol, with the marks + ~ [ ]
\* and : inside it: the pseudo-class selector p:hover is <<"p:hover">>, and
\* .a:hover is <<".", "a:hover">>. The tag names and class tokens of the
\* nodes are such runs too: html.parser reads <o:p> as the name o:p, and a
\* class attribute is split at whitespace only.
UnsupportedSelectors ==
    {<<"p:hover">>, <<"o:p">>, <<"p[x]">>, <<"div+p">>, <<"div~p">>,
     <<".", "a:hover">>, <<".", "a[x]">>, <<"p", ".", "a:hover">>,
     <<"div", " ", "+", " ", "p">>, <<"div", " ", "~", " ", "p">>,
     <<".", "a", " ", "+", " ", "p">>, <<"div", " ", "p:hover">>,
     <<"div", " ", ".", "a:hover">>, <<"div", " ", "p", ".", "a[x]">>}

UnsupportedNodes ==
    {Node(n, c, <<>>) : n \in {"p", "div", "o:p"}, c \in {{}, {"a"}, {"a", "a:hover"}, {"a[x]"}}}

UnsupportedChains ==
    UNION { {c \o <<Document>> : c \in [1..n -> UnsupportedNodes]} : n \in 1..(MaxDepth - 1) }

\* the matcher asked about a selector of an unsupported shape
InitUnsupported ==
    /\ dom \in UnsupportedChains
    /\ selector \in UnsupportedSelectors
    /\ css_styles = <<>>
    /\ element_styles = EmptyMap
    /\ matched = "none"
    /\ resolved = 0
    /\ WalkIdle
    /\ TableIdle
    /\ ServiceIdle
    /\ RenderIdle

SpecUnsupported == InitUnsupported /\ [][NextMatch]_vars

\* the cascade: a stylesheet registered rule by rule, then elements resolved
InitCascade ==
    /\ dom \in CascadeDoms
    /\ css_styles = <<>>
    /\ element_styles = EmptyMap
    /\ selector = <<>>
    /\ matched = "none"
    /\ resolved = 0
    /\ WalkIdle
    /\ TableIdle
    /\ ServiceIdle
    /\ RenderIdle

AddRule(sel) ==
    /\ resolved = 0
    /\ Len(css_styles) < MaxRules
    /\ \A k \in 1..Len(css_styles) : css_styles[k][1] # sel
    /\ css_styles' = Register(css_styles, sel, RuleProps(sel))
    /\ UNCHANGED <<dom, element_styles, selector, matched, resolved>>
    /\ UNCHANGED notStyle

Resolve(k) ==
    /\ resolved # k
    /\ element_styles' = GetElementStyles(css_styles, dom, k)
    /\ resolved' = k
    /\ UNCHANGED <<dom, css_styles, selector, matched>>
    /\ UNCHANGED notStyle

NextCascade ==
    \/ \E sel \in CascadeSelectors : AddRule(sel)
    \/ \E k \in 1..(Len(dom) - 1) : Resolve(k)

SpecCascade == InitCascade /\ [][NextCascade]_vars

\* the value of a rule that declares a selector again
Again(sel) == "again " \o ValueOf(sel)

\* the cascade over a stylesheet in which selectors are declared again:
\* elements without inline style, of no class, one class or two
TieDoms ==
    { <<Node("p", c, <<>>), Node("div", pc, <<>>), Document>> :
        c \in {{}, {"cls"}, {"cls", "outer"}}, pc \in {{}, {"outer"}} }

InitTie ==
    /\ dom \in TieDoms
    /\ css_styles = <<>>
    /\ element_styles = EmptyMap
    /\ selector = <<>>
    /\ matched = "none"
    /\ resolved = 0
    /\ WalkIdle
    /\ TableIdle
    /\ ServiceIdle
    /\ RenderIdle

\* line 150 for the next rule of the CSS: a selector not seen yet
DeclareRule(sel) ==
    /\ resolved = 0
    /\ Len(css_styles) < MaxRules
    /\ \A k \in 1..Len(css_styles) : css_styles[k][1] # sel
    /\ css_styles' = Register(css_styles, sel, RuleProps(sel))
    /\ UNCHANGED <<dom, element_styles, selector, matched, resolved>>
    /\ UNCHANGED notStyle

\* line 150 for the next rule of the CSS: a selector declared before, once more
RedeclareRule(sel) ==
    /\ resolved = 0
    /\ \E k \in 1..Len(css_styles) : css_styles[k] = <<sel, RuleProps(sel)>>
    /\ css_styles' = Register(css_styles, sel, [k \in {"color"} |-> Again(sel)])
    /\ UNCHANGED <<dom, element_styles, selector, matched, resolved>>
    /\ UNCHANGED notStyle

NextTie ==
    \/ \E sel \in CascadeSelectors : DeclareRule(sel)
    \/ \E sel \in CascadeSelectors : RedeclareRule(sel)
    \/ \E k \in 1..(Len(dom) - 1) : Resolve(k)

SpecTie == InitTie /\ [][NextTie]_vars

\* the walk of one tree
NextWalk ==
    \/ Descend
    \/ Return

SpecWalk == InitWalk /\ [][NextWalk]_vars

\* ------------------------------------------------------------------ claims

RegisteredSelectors == {css_styles[k][1] : k \in 1..Len(css_styles)}

InlineDeclares(items, n) == \E i \in 1..Len(items) : items[i].colon /\ items[i].name = n

\* the value of the last inline declaration of n
LastInlineValue(items, n) ==
    LET i == CHOOSE i \in 1..Len(items) :
                 /\ items[i].colon /\ items[i].name = n
                 /\ \A j \in (i + 1)..Len(items) : ~(items[j].colon /\ items[j].name = n)
    IN  items[i].value

\* C1's case: <p class="cls"> under an element of class outer, resolved against
\* the four rules p, .cls, p.cls, .outer .cls in some order, no inline colour
C1_Case ==
    /\ resolved = 1
    /\ dom[1].name = "p" /\ dom[1].class = {"cls"} /\ "outer" \in dom[2].class
    /\ ~InlineDeclares(dom[1].style, "color")
    /\ RegisteredSelectors = {SelP, SelCls, SelPCls, SelOuterCls}

\* C1: for a node matched by p, .cls, p.cls and .outer .cls, each declaring the
\* same property, the resolved value is the one of the descendant rule
\* .outer .cls, whatever the order of the rules.
C1_DescendantRuleWins ==
    C1_Case => /\ "color" \in DOMAIN element_styles
               /\ element_styles["color"] = ValueOf(SelOuterCls)

\* one token of a descendant selector against one node, as section 4.2 states it
TokenMatches(tok, el) ==
    IF Head(tok) = "." THEN tok[2] \in el.class
    ELSE IF Len(tok) = 3 THEN tok[1] = el.name /\ tok[3] \in el.class
    ELSE tok[1] = el.name

\* the last token matches the node; the tokens before it match strict ancestors,
\* nearer tokens nearer ancestors
ChainMatches(sel, chain) ==
    LET parts == SplitSpaces(sel)
        n     == Len(parts)
    IN  /\ TokenMatches(parts[n], chain[1])
        /\ \E f \in [1..(n - 1) -> 2..Len(chain)] :
              /\ \A j \in 1..(n - 2) : f[j] > f[j + 1]
              /\ \A j \in 1..(n - 1) : TokenMatches(parts[j], chain[f[j]])

\* C2: _selector_matches_element returns true for a space-separated selector iff
\* the last token matches the node and the preceding tokens match a chain of
\* strict ancestors in order, also when the first token is a class.
C2_DescendantMatching ==
    matched # "none" => ((matched = "yes") <=> ChainMatches(selector, dom))

\* C3: every property declared with a colon in the inline style has the inline
\* value in the map _get_element_styles returns, whatever rules match the node.
C3_InlineWins ==
    resolved # 0 =>
        \A i \in 1..Len(dom[resolved].style) :
            LET it == dom[resolved].style[i]
            IN  it.colon =>
                    /\ it.name \in DOMAIN element_styles
                    /\ element_styles[it.name] = LastInlineValue(dom[resolved].style, it.name)

\* an element with an inline colour resolved against two or more matching rules
C3_Witness ==
    /\ resolved = 1
    /\ InlineDeclares(dom[1].style, "color")
    /\ Cardinality({k \in 1..Len(css_styles) :
                       SelectorMatchesElement(css_styles[k][1], dom, 1)}) >= 2
    /\ element_styles["color"] = "inline"

\* the marker of a recognized div, "None" for any other node
MarkerOf(n) == LocalSection(tree.kind[n], None)

\* the marker of the nearest recognized div among the strict ancestors of n
RECURSIVE NearestMarker(_)
NearestMarker(n) ==
    IF n = 1 THEN None
    ELSE LET a == tree.parent[n]
         IN  IF MarkerOf(a) # None THEN MarkerOf(a) ELSE NearestMarker(a)

RECURSIVE IsAncestor(_, _)
IsAncestor(a, n) ==
    IF n = 1 THEN FALSE
    ELSE tree.parent[n] = a \/ IsAncestor(a, tree.parent[n])

\* C4: every node is processed with the marker of its nearest enclosing
\* recognized div, or with no section if there is none: a section set by a div
\* holds in that div's subtree only, and the siblings that follow the div are
\* processed with the value that was active before descending.
C4_SectionScoped ==
    \A i \in 1..Len(calls) : calls[i].section = NearestMarker(calls[i].node)

\* a recognized div nested in another one has been entered and left, and the node
\* that follows it in the outer div is processed with the outer div's marker
C4_Witness ==
    \E i, k \in 1..Len(calls) :
        /\ i < k
        /\ MarkerOf(calls[i].node) # None /\ calls[i].section # None
        /\ MarkerOf(calls[i].node) # calls[i].section
        /\ calls[k].node # 1 /\ calls[i].node # 1
        /\ tree.parent[calls[k].node] = tree.parent[calls[i].node]
        /\ calls[k].section = calls[i].section

\* call j is for a sibling that follows the recognized div of call i, with no
\* other recognized div between them
FollowsSectionDiv(i, j) ==
    /\ i < j
    /\ calls[i].node # 1 /\ calls[j].node # 1
    /\ tree.parent[calls[i].node] = tree.parent[calls[j].node]
    /\ MarkerOf(calls[i].node) # None
    /\ \A m \in (i + 1)..(j - 1) :
          tree.parent[calls[m].node] = tree.parent[calls[i].node] => MarkerOf(calls[m].node) = None

\* C5 as stated: once the walk has entered a container that sets a section, the
\* nodes visited afterwards at the same nesting level outside that container
\* are processed with the container's section.
C5_SectionLeaks ==
    \A i, j \in 1..Len(calls) :
        FollowsSectionDiv(i, j) => calls[j].section = MarkerOf(calls[i].node)

\* C5 amended: the nodes visited afterwards at the same nesting level outside the
\* container are processed with the section that was active before the walk
\* entered the container, the one the container itself was called with.
C5_SectionRestored ==
    \A i, j \in 1..Len(calls) :
        FollowsSectionDiv(i, j) => calls[j].section = calls[i].section

\* a sibling after a recognized div, processed with another section than the div's
C5_Witness ==
    \E i, j \in 1..Len(calls) :
        /\ FollowsSectionDiv(i, j)
        /\ calls[j].section # MarkerOf(calls[i].node)
        /\ calls[j].section = calls[i].section
        /\ stack = <<>>

\* the grid positions of a rectangle <<top, left, height, width>>
Positions(rect) ==
    {<<r, c>> : r \in rect[1]..(rect[1] + rect[3] - 1), c \in rect[2]..(rect[2] + rect[4] - 1)}

\* C6: a cell declaring rowspan=r, colspan=c placed at (i,j) of an R x C grid gets
\* a merged region of exactly min(r, R-i) rows by min(c, C-j) columns starting
\* there, and no merge raises.
C6_MergeExtent ==
    /\ ~raised
    /\ \A n \in 1..Len(placed) :
          placed[n].region = <<placed[n].row, placed[n].col,
                               Min(placed[n].cell.rowspan, Len(rows) - placed[n].row),
                               Min(placed[n].cell.colspan, MaxCols(rows) - placed[n].col)>>

\* C7: no grid position belongs to the regions of two different source cells.
C7_RegionsDisjoint ==
    \A m, n \in 1..Len(placed) :
        m # n => Positions(placed[m].region) \cap Positions(placed[n].region) = {}

\* the calls of a kind that raised
Raised(op) == {f \in failed : f.op = op}

\* every id of the index has its file on disk
IndexBacked == \A k \in 1..Len(file_metadata) : file_metadata[k].file_path \in DOMAIN disk

\* C8: the sweep and the request threads never disturb one another: no
\* cleanup_expired fails because the index changed while it iterates it, no
\* get fails because its file went between the existence check and the
\* read, and outside a delete under way no id of the index lacks its file.
C8_RaceFree ==
    /\ Raised("cleanup_expired") = {}
    /\ Raised("get") = {}
    /\ sweep.pc # "pop" => IndexBacked

\* C9: after any sequence of save, get, delete and cleanup_expired, with or
\* without a file_name, get(id) returns the bytes passed to the save that
\* returned id while id was neither deleted nor swept, and None for an id
\* never issued, deleted or swept.
C9_RoundTrip ==
    \A file_id \in Ids :
        LocalGet(file_metadata, disk, file_id) =
            IF file_id \in DOMAIN saved /\ file_id \notin removed
            THEN saved[file_id] ELSE None

\* the instant the token issued last expires: issue time + ttl
Deadline == grant.issued_at + Seconds(grant.ttl)

\* C10: generate_short_token succeeds for every stored id and integer
\* ttl >= 0; verify_short_token returns the id of the token at every time up
\* to issue time + ttl while the id is in the index, None at every later
\* time, and None for every token that differs from the issued one.
C10_TokenRoundTrip ==
    /\ \A f \in Raised("generate_short_token") : f.arg < 0
    /\ token # <<>> =>
         \A all_file_ids \in Listings(file_metadata, disk) :
            /\ (now <= Deadline /\ grant.file_id \in Keys(file_metadata))
                    => VerifyShortToken(token, now, all_file_ids) = grant.file_id
            /\ now > Deadline => VerifyShortToken(token, now, all_file_ids) = NoFile
            /\ \A tok \in TokenSpace \ {token} :
                    VerifyShortToken(tok, now, all_file_ids) = NoFile

\* C11: convert absorbs every problem of the styles and of the images: no
\* call of _process_element leaves convert with an exception, whatever the
\* values of font-size, color, line-height, margin-top and text-indent are.
C11_ConvertAbsorbs == error = "none"

\* the paragraphs of the document that _apply_paragraph_styles was called for
Styled == {k \in 1..Len(doc) : doc[k].node.name \notin {"img", "table"}}

\* C12: the heading of an h1 processed with section abstract is centered,
\* in HeiTi and of size 16pt, whatever its resolved style declares.
C12_AbstractHeadingFixed ==
    \A k \in Styled :
        (doc[k].node.name = "h1" /\ doc[k].node.section = "abstract") =>
            /\ doc[k].para.alignment = "center"
            /\ \A j \in 1..Len(doc[k].para.runs) :
                   /\ doc[k].para.runs[j].name = "HeiTi"
                   /\ doc[k].para.runs[j].eastAsia = "HeiTi"
                   /\ doc[k].para.runs[j].size = TitleSize

\* a colour value of the form #RRGGBB
IsHexColor(v) == Len(v) = 7 /\ v[1] = "#" /\ \A j \in 2..7 : v[j] \in HexDigits

\* C13: every run of a paragraph whose resolved style has no color, or a
\* color that is not of the form #RRGGBB, carries the colour (0,0,0); the
\* empty resolved style is one of the styles without color.
C13_BlackDefault ==
    \A k \in Styled :
        ("color" \notin DOMAIN doc[k].node.styles \/ ~IsHexColor(doc[k].node.styles["color"])) =>
            \A j \in 1..Len(doc[k].para.runs) : doc[k].para.runs[j].color = <<0, 0, 0>>

\* C14: a paragraph of style Normal, which the walker makes without an
\* indent, has the first-line indent of 28pt exactly when its resolved
\* style, the empty one included, has no text-indent; with a text-indent
\* the indent is the one the value gives, and a paragraph of another style
\* gets no default.
C14_DefaultIndent ==
    \A k \in Styled :
        LET st == doc[k].node.styles
            para == doc[k].para
        IN  IF "text-indent" \in DOMAIN st
            THEN para.first_line_indent = IndentOf(st["text-indent"])
            ELSE IF para.style = "Normal"
                 THEN para.first_line_indent = DefaultIndent
                 ELSE para.first_line_indent = NoLength

\* an <img> with a src whose resource cannot be loaded
FailingImage(e) == e.name = "img" /\ e.has_src /\ e.src # <<>> /\ ~e.embeds

\* the placeholder paragraphs of node e among the entries es: centered,
\* with the alt text, or the src when there is no alt attribute
Placeholders(e, es) ==
    {k \in 1..Len(es) :
        /\ es[k].node = e
        /\ es[k].para.alignment = "center"
        /\ Len(es[k].para.runs) = 1
        /\ es[k].para.runs[1].text = Placeholder(IF e.has_alt THEN e.alt ELSE e.src)}

\* C17: when the walker processes an <img> whose resource cannot be
\* loaded, it adds one centered placeholder paragraph with the alt text
\* (the src without an alt attribute), no exception leaves the call, and
\* the nodes after the image are still to be processed, nothing hindering.
C17_ImagePlaceholder ==
    [][(pending # <<>> /\ FailingImage(Head(pending))) =>
          /\ error' = "none"
          /\ pending' = Tail(pending)
          /\ Cardinality(Placeholders(Head(pending), SubSeq(doc', Len(doc) + 1, Len(doc')))) = 1
          /\ SubSeq(doc', 1, Len(doc)) = doc]_vars

\* C17 witness: an image without alt failed, its placeholder carries the
\* src, and the node after it was converted.
C17_Witness ==
    \E j, k \in 1..Len(doc) :
        /\ j < k
        /\ FailingImage(doc[j].node)
        /\ ~doc[j].node.has_alt
        /\ j \in Placeholders(doc[j].node, doc)
        /\ doc[k].node = After
        /\ error = "none"

\* C18: the paragraph of a <p> of section keywords with a keyword-title has
\* two runs, the title in bold and the text after the title not in bold,
\* both in SongTi, whatever the resolved style of the <p> is.
C18_KeywordsSplit ==
    \A k \in Styled :
        LET e == doc[k].node
            runs == doc[k].para.runs
        IN  (e.name = "p" /\ e.section = "keywords" /\ e.has_title) =>
                /\ Len(runs) = 2
                /\ runs[1].text = e.title /\ runs[1].bold = "yes"
                /\ runs[2].text = Strip(e.rest) /\ runs[2].bold = "no"
                /\ \A j \in 1..2 : runs[j].name = "SongTi" /\ runs[j].eastAsia = "SongTi"

\* the items of a rule
ItemsOf(rule) == SplitOn(rule.properties, ";")

\* the rules without their items that have no colon
CleanRules(rules) ==
    [k \in 1..Len(rules) |->
        [rules[k] EXCEPT !.properties =
            JoinWith(SelectSeq(ItemsOf(rules[k]), LAMBDA p : Contains(p, ":")), ";")]]

\* the value registered for property n of selector sel (<<>>: none)
Registered(styles, sel, n) ==
    IF \E k \in 1..Len(styles) : styles[k][1] = sel /\ n \in DOMAIN styles[k][2]
    THEN LET k == CHOOSE k \in 1..Len(styles) : styles[k][1] = sel IN styles[k][2][n]
    ELSE <<>>

\* item i of rule r is the last of the rule to give its property a value
LastOfName(rule, i) ==
    LET items == ItemsOf(rule)
    IN  /\ Contains(items[i], ":")
        /\ PropValue(items[i]) # <<>>
        /\ \A j \in (i + 1)..Len(items) :
               ~(Contains(items[j], ":") /\ PropValue(items[j]) # <<>>
                 /\ PropName(items[j]) = PropName(items[i]))

\* C15: reading a <style> tag, an item without a colon is skipped: the map
\* extracted is the one the text gives without such items, so the rules
\* before and after are what they are without it, and every property of a
\* rule that has a colon and a value is there for each selector of the
\* rule that no later rule of the tag names again.
C15_MalformedDropped ==
    [][style_tags # <<>> =>
          LET rules == RulesOf(Head(style_tags))
          IN  /\ error' = "none"
              /\ css_styles' = ExtractRules(css_styles, CleanRules(rules))
              /\ \A r \in 1..Len(rules) :
                    \A i \in 1..Len(ItemsOf(rules[r])) :
                        LastOfName(rules[r], i) =>
                            \A s \in 1..Len(SingleSelectors(Strip(rules[r].selector))) :
                                LET sel == SingleSelectors(Strip(rules[r].selector))[s]
                                IN  (\A q \in (r + 1)..Len(rules) :
                                        ~Contains(SingleSelectors(Strip(rules[q].selector)), sel))
                                    => Registered(css_styles', sel, PropName(ItemsOf(rules[r])[i]))
                                       = PropValue(ItemsOf(rules[r])[i])]_vars

\* C15 witness: the tag read last has, after a first rule, a rule for p and
\* .a with the item `color red` before a well-formed font-size, and the
\* font-size is registered for both selectors, the rule of the tag read
\* before (its selector text is `}p`, the `h1{}` before it matching nothing)
\* still there.
C15_Witness ==
    LET rules == RulesOf(css_text)
    IN  /\ Len(rules) = 2
        /\ Strip(rules[1].selector) = <<".", "a">>
        /\ ItemsOf(rules[1]) = <<<<"color", ":", "red">>>>
        /\ Len(SingleSelectors(Strip(rules[2].selector))) = 2
        /\ Len(ItemsOf(rules[2])) = 2
        /\ ItemsOf(rules[2])[1] = <<"color", " ", "red">>
        /\ Registered(css_styles, <<"p">>, "font-size") = <<"1", "2", "pt">>
        /\ Registered(css_styles, <<".", "a">>, "font-size") = <<"1", "2", "pt">>
        /\ Registered(css_styles, <<"p">>, "color") = <<>>
        /\ Registered(css_styles, <<"}", "p">>, "color") = <<"blue">>

\* C16: a selector with a sibling combinator, an attribute part or a
\* pseudo-class matches no node of any tree.
C16_UnsupportedNeverMatch == selector \in UnsupportedSelectors => matched # "yes"

\* the triplet a colour value denotes, written #RRGGBB or rgb(r,g,b)
Denotes(v) ==
    IF IsHexColor(v) THEN HexTriplet(v)
    ELSE IF StartsWith(v, "rgb") THEN RgbMatch(v)
    ELSE Err

\* C19: every td and th placed, with text or without, has the
\* background-color and the text-align of its resolved style on its target
\* cell, and a th with text is bold, and centered unless its style aligns
\* it.
C19_CellStylesApplied ==
    \A k \in 1..Len(doc) :
        LET st == doc[k].node.styles
            para == doc[k].para
        IN  /\ ("background-color" \in DOMAIN st /\ ~Denotes(st["background-color"]).err) =>
                   doc[k].shading = RgbToHex(Denotes(st["background-color"]).val)
            /\ "text-align" \in DOMAIN st => para.alignment = st["text-align"][1]
            /\ (doc[k].node.name = "th" /\ Strip(GetText(doc[k].node)) # <<>>) =>
                   /\ Len(para.runs) = 1
                   /\ \A j \in 1..Len(para.runs) : para.runs[j].bold = "yes"
                   /\ "text-align" \notin DOMAIN st => para.alignment = "center"

\* C20: in a cell with text, a color and a background-color written
\* #RRGGBB or rgb(r,g,b) give the runs and the shading the triplet the
\* value denotes, so the two ways of writing a triplet give the same.
C20_ColourEquivalence ==
    \A k \in 1..Len(doc) :
        LET st == doc[k].node.styles
            para == doc[k].para
        IN  Strip(GetText(doc[k].node)) # <<>> =>
               /\ ("color" \in DOMAIN st /\ ~Denotes(st["color"]).err) =>
                      \A j \in 1..Len(para.runs) : para.runs[j].color = Denotes(st["color"]).val
               /\ ("background-color" \in DOMAIN st /\ ~Denotes(st["background-color"]).err) =>
                      doc[k].shading = RgbToHex(Denotes(st["background-color"]).val)

\* the size in EMU a font-size value stands for: a size name of the table,
\* or a number alone or with pt (that many points) or with px (three
\* quarters of it); 0: none of these, no size
StatedSize(v) ==
    IF Len(v) = 1 /\ v[1] \in DOMAIN CN_FONT_SIZE_MAP THEN Pt(CN_FONT_SIZE_MAP[v[1]])
    ELSE IF NumberPrefix(v).len = 0 THEN 0
    ELSE IF NumberPrefix(v).len = Len(v) THEN Pt(NumberPrefix(v).milli)
    ELSE IF NumberPrefix(v).len = Len(v) - 1 /\ Last(v) = "pt" THEN Pt(NumberPrefix(v).milli)
    ELSE IF NumberPrefix(v).len = Len(v) - 1 /\ Last(v) = "px"
         THEN Pt(ThreeQuarters(NumberPrefix(v).milli))
    ELSE 0

\* C21: the runs of an ordinary <p> with a font-size have the size the value
\* stands for: xiaosi 12pt, 14px 10.5pt, 12pt and 11 their number of
\* points, and no size for a value such as 2em or big.
C21_FontSizeMapping ==
    \A k \in Styled :
        LET e == doc[k].node
        IN  (e.name = "p" /\ e.section = None /\ e.classes = {} /\ "font-size" \in DOMAIN e.styles) =>
                \A j \in 1..Len(doc[k].para.runs) :
                    doc[k].para.runs[j].size = StatedSize(e.styles["font-size"])

\* a <table> without <tr>, or whose rows all have the column count 0
EmptyTable(e) ==
    /\ e.name = "table"
    /\ \A k \in 1..Len(e.rows) : SumColspan(e.rows[k]) = 0

\* C22: for a table without rows or without columns the walker adds no
\* block, no exception leaves the call, and the nodes after the table are
\* still to be processed.
C22_EmptyTableSkipped ==
    [][(pending # <<>> /\ EmptyTable(Head(pending))) =>
          /\ doc' = doc
          /\ error' = "none"
          /\ pending' = Tail(pending)]_vars

\* C22 witness: a table whose only row has a cell of colspan 0 was
\* processed, then the node after it, and the document holds the paragraph
\* of that node alone.
C22_Witness ==
    /\ Len(visited) = 2
    /\ EmptyTable(visited[1])
    /\ visited[1].rows # <<>>
    /\ visited[1].rows[1] # <<>>
    /\ visited[2] = After
    /\ Len(doc) = 1
    /\ doc[1].node = After
    /\ error = "none"

\* the td/th of row r that were given a grid position
PlacedOf(r) == {k \in 1..Len(placed) : placed[k].row = r}

\* the rows whose cells the loop is done with
RowsDone ==
    {r \in 0..(Len(rows) - 1) : r < row_index \/ (r = row_index /\ cell_no > Len(rows[r + 1]))}

\* C23: once the loop is done with a row, every td/th of the row has been
\* placed at a grid column that no earlier merge region covers, also in
\* rows where rowspans of earlier rows occupy columns.
C23_CellPlacement ==
    ~raised =>
        \A r \in RowsDone :
            /\ Cardinality(PlacedOf(r)) = Len(rows[r + 1])
            /\ \A k \in PlacedOf(r) :
                   \A j \in 1..(k - 1) :
                       LET g == placed[j].region
                       IN  ~(/\ g[1] <= r /\ r < g[1] + g[3]
                             /\ g[2] <= placed[k].col /\ placed[k].col < g[2] + g[4])

\* the selectors rule r is registered for
SelectorsOf(rule) == SingleSelectors(Strip(rule.selector))

\* the rules of the list that name the selector
RulesNaming(rules, sel) == {r \in 1..Len(rules) : Contains(SelectorsOf(rules[r]), sel)}

\* the property map of a selector of the stylesheet
MapOf(styles, sel) == styles[CHOOSE k \in 1..Len(styles) : styles[k][1] = sel][2]

SelectorsIn(styles) == {styles[k][1] : k \in 1..Len(styles)}

\* C24: after a <style> tag is read, a selector that rules of the tag name
\* has the property map of the last of these rules and nothing of the
\* earlier ones or of the tags read before, and a selector no rule of
\* the tag names has what it had.
C24_LastRuleWins ==
    [][style_tags # <<>> =>
          LET rules == RulesOf(Head(style_tags))
              named == UNION {{SelectorsOf(rules[r])[s] : s \in 1..Len(SelectorsOf(rules[r]))} :
                                 r \in 1..Len(rules)}
          IN  /\ SelectorsIn(css_styles') = SelectorsIn(css_styles) \cup named
              /\ \A sel \in named :
                     LET last == CHOOSE r \in RulesNaming(rules, sel) :
                                     \A q \in RulesNaming(rules, sel) : q <= r
                     IN  MapOf(css_styles', sel) = StyleProperties(ItemsOf(rules[last]), EmptyMap)
              /\ \A sel \in SelectorsIn(css_styles) \ named :
                     MapOf(css_styles', sel) = MapOf(css_styles, sel)]_vars

\* C24 witness: the tag read has two rules for p, the first with a color
\* and a font-size, the second with a font-family, and p has the
\* font-family alone.
C24_Witness ==
    LET rules == RulesOf(css_text)
    IN  /\ Len(rules) = 2
        /\ SelectorsOf(rules[1]) = <<<<"p">>>>
        /\ SelectorsOf(rules[2]) = <<<<"p">>>>
        /\ DOMAIN StyleProperties(ItemsOf(rules[1]), EmptyMap) = {"color", "font-size"}
        /\ DOMAIN MapOf(css_styles, <<"p">>) = {"font-family"}
        /\ MapOf(css_styles, <<"p">>)["font-family"] = <<"SimSun">>

\* the rules of the stylesheet that match the resolved element
MatchingRules == {k \in 1..Len(css_styles) : SelectorMatchesElement(css_styles[k][1], dom, resolved)}

RankOf(k) == Specificity(css_styles[k][1], dom[resolved])

\* the rules of the highest rank among the matching ones
TopRules == {k \in MatchingRules : \A j \in MatchingRules : RankOf(j) <= RankOf(k)}

\* the selectors of a stylesheet in its iteration order
SelectorOrder(styles) == [k \in 1..Len(styles) |-> styles[k][1]]

\* C25: among the matching rules of the highest rank, all declaring the
\* property, the element gets the value of the one that comes last in the
\* iteration order of the stylesheet; and a rule for a selector registered
\* before leaves the order as it is, a rule for a new selector goes last.
C25_StableTieBreak ==
    /\ [](resolved # 0 /\ MatchingRules # {} =>
            LET last == CHOOSE k \in TopRules : \A j \in TopRules : j <= k
            IN  /\ "color" \in DOMAIN element_styles
                /\ element_styles["color"] = css_styles[last][2]["color"])
    /\ [][\/ SelectorOrder(css_styles') = SelectorOrder(css_styles)
          \/ /\ Len(css_styles') = Len(css_styles) + 1
             /\ SubSeq(SelectorOrder(css_styles'), 1, Len(css_styles)) = SelectorOrder(css_styles)
             /\ ~Contains(SelectorOrder(css_styles), css_styles'[Len(css_styles')][1])]_vars

\* C25 witness: <p class="cls outer"> resolved against `.cls` and
\* `.outer`, of equal rank, registered in this order, the first declared
\* again after the second: the value is the one of `.outer`.
C25_Witness ==
    /\ resolved = 1
    /\ SelectorOrder(css_styles) = <<SelCls, SelOuter>>
    /\ css_styles[1][2]["color"] = Again(SelCls)
    /\ Cardinality(TopRules) = 2
    /\ element_styles["color"] = ValueOf(SelOuter)

\* the ids of the index whose expires_at is before t
ExpiredAt(t) == {id \in Keys(file_metadata) : Entry(file_metadata, id).expires_at < t}

\* C26: a call of cleanup_expired at time now takes out of the index the
\* ids with expires_at < now and no other, removes their files, returns
\* their number, and every id that stays and that get returned the saved
\* bytes for before the call is still returned its saved bytes.
C26_SweepExact ==
    [][(result'.op = "cleanup_expired" /\ now' = now) =>
          /\ Keys(file_metadata') = Keys(file_metadata) \ ExpiredAt(now)
          /\ \A id \in ExpiredAt(now) : Entry(file_metadata, id).file_path \notin DOMAIN disk'
          /\ result'.val = Cardinality(ExpiredAt(now))
          /\ \A id \in Keys(file_metadata') :
                 LocalGet(file_metadata, disk, id) = saved[id] =>
                     LocalGet(file_metadata', disk', id) = saved[id]]_vars

\* C27: generate_short_token called without expires_in, or with one that
\* int() rejects, does not fail.
C27_DefaultLifetime ==
    \A f \in failed : ~(f.op = "generate_short_token" /\ f.arg = NoTtl)

\* no other id of the index has the hash of the id the token was issued for
HashUnshared ==
    \A id \in Keys(file_metadata) \ {grant.file_id} : FileIdHash(id) # FileIdHash(grant.file_id)

\* C28: at every time up to issue time + ttl, whatever sweeps ran, the token
\* a convert request returned is verified to the id of its file and get of
\* that id returns the bytes of the file (the ids of other files not
\* sharing the hash of the id).
C28_LinkWorksUntilExpiry ==
    (token # <<>> /\ now <= Deadline /\ HashUnshared) =>
        \A all_file_ids \in Listings(file_metadata, disk) :
            /\ VerifyShortToken(token, now, all_file_ids) = grant.file_id
            /\ LocalGet(GetAllFileIds(file_metadata, disk, all_file_ids), disk, grant.file_id)
                   = saved[grant.file_id]

\* C29: a convert request answered with 400 or 500 leaves the index and
\* the files as they were before the request.
C29_FailedConvertKeepsStorage ==
    [][(result'.op = "convert" /\ result'.val \in {400, 500} /\ now' = now) =>
          /\ file_metadata' = file_metadata
          /\ disk' = disk]_vars

====
